---- MODULE Spec2Model ----
(***************************************************************************)
(* A model of the simulation core of noloerino/mars: the program state     *)
(* (user state + privileged state), the diff records that mutate it, trap  *)
(* and syscall dispatch, the register-register instruction builder and     *)
(* the mapping of a termination cause to an exit status.                   *)
(*                                                                         *)
(* Machine words.  Register data, byte addresses and memory words are      *)
(* 32-bit values; every value the model draws is in 0 .. 2^31-1, where the *)
(* signed, unsigned, register-data and byte-address views of a value are   *)
(* the same number, so the `.into()` conversions of the source do not      *)
(* change it.  Sums that could leave that range are guarded before they    *)
(* are computed (see RType_eval).                                          *)
(***************************************************************************)
EXTENDS Integers, Sequences, FiniteSets, TLC

VARIABLES
    user_state,   \* UserProgState: [pc, regfile, memory]
    priv_state,   \* PrivProgState / PrivState: [stdout, stderr]
    phase,        \* position inside ProgramState::apply_diff: idle, trap, priv, user, aborted
    cur,          \* the instruction in flight: its trap, the state before it, its diffs
    undo,         \* the caller's undo stack of ProgramDiff records
    last,         \* the last completed operation (apply, revert) and what it acted on
    steps,        \* number of calls the owner made so far (apply_inst, setters, apply_diff)
    term_cause,   \* the TermCause handed to TermCause::handle_exit
    exit_status,  \* the u8 returned by TermCause::handle_exit, -1 before the call
    args,         \* the arguments of RiscVProgram::new: [insts, data, rodata]
    insts,        \* RiscVProgram.insts, the instruction vector of the program
    run_status,   \* position of the RiscVProgram: none, new, loaded, returned
    run_ret,      \* the value returned by RiscVProgram::run, <<>> before it returns
    priv_s,       \* PrivState of priv_s.rs: [brk, heap_start, stdout, stderr]
    driver,       \* what the last call of PrivState::apply_diff gave, and whether a cause was
                  \* ever produced
    cmp,          \* two MipsInst values and the result of comparing them
    det,          \* one instruction evaluated against two program states
    origin,       \* the ProgramState the undo stack starts from, <<>> where it is not used
    bm,           \* a Bitmap of bitmap.rs and the calls made on it
    asm           \* an input of the assembler's parser and what the parser made of it

\* The variables of the program loader and runner, of the privileged-diff driver and of
\* the instruction comparison.
runVars == <<args, insts, run_status, run_ret>>
termVars == <<priv_s, driver>>
libVars == <<bm, asm>>
encVars == <<cmp, det, origin, libVars>>

vars == <<user_state, priv_state, phase, cur, undo, last, steps, term_cause, exit_status,
          args, insts, run_status, run_ret, priv_s, driver, cmp, det, origin, bm, asm>>

(***************************************************************************)
(* Bounds of the model.                                                    *)
(***************************************************************************)
MaxSteps == 2
MaxExitCode == 300
MaxProg == 3
MaxFlips == 3
MaxArgToks == 5
MaxLines == 3
MaxBranchArgs == 3

(***************************************************************************)
(* Program constants.                                                      *)
(***************************************************************************)
TEXT_START_32 == 268435456
DATA_START_32 == 536870912
STACK_START_32 == 2147483632
I32_MAX == 2147483647
U64_BITS == 64
I32_BITS == 32
ABNORMAL_MASK == 128
NORMAL_MASK == 127

(***************************************************************************)
(* Registers, the syscall convention and memory: the interfaces the core   *)
(* calls.  Their implementations are outside the modelled files.           *)
(***************************************************************************)
Regs == {"zero", "sp", "a0", "a1", "a2", "a7", "t0"}

\* RegFile::read
RegFile_read(regfile, reg) == regfile[reg]

\* RegFile::set: a write to the hardwired zero register is absorbed.
RegFile_set(regfile, reg, val) ==
    IF reg = "zero" THEN regfile ELSE [regfile EXCEPT ![reg] = val]

\* SyscallConvention: the number register, the argument registers, the return registers.
syscall_number_reg == "a7"
syscall_arg_regs == <<"a0", "a1", "a2">>
syscall_return_regs == <<"a0">>

\* SyscallConvention::number_to_syscall: Option<Syscall>, None as "None".
number_to_syscall(n) ==
    CASE n = 0 -> "Read"
      [] n = 1 -> "Write"
      [] n = 2 -> "Open"
      [] n = 3 -> "Close"
      [] OTHER -> "None"

\* ByteAddress::plus_4 (every pc of the model is below 2^31 - 4).
plus_4(addr) == addr + 4

\* The number of words of the 32-bit address space, 2^30.
WORDS == 1073741824

\* ByteAddress::to_word_address: the address, an unsigned 32-bit value held as its 32-bit
\* pattern (2^31 and above are the negative patterns), shifted right by two places.
to_word_address(addr) == IF addr < 0 THEN addr \div 4 + WORDS ELSE addr \div 4

\* The word addresses the model's memory holds: the first two words of the data segment.
MemAddrs == {to_word_address(DATA_START_32), to_word_address(DATA_START_32) + 1}

\* Memory::get_word / Memory::set_word: a word that was never stored reads as 0.
Memory_get_word(memory, addr) == IF addr \in DOMAIN memory THEN memory[addr] ELSE 0
Memory_set_word(memory, addr, val) ==
    [a \in DOMAIN memory \cup {addr} |-> IF a = addr THEN val ELSE memory[a]]

Pow256(k) == CASE k = 0 -> 1 [] k = 1 -> 256 [] k = 2 -> 65536 [] OTHER -> 16777216

\* Memory::get_byte: byte (addr mod 4) of the word holding addr, byte 0 the least significant.
Memory_get_byte(memory, addr) ==
    (Memory_get_word(memory, to_word_address(addr)) \div Pow256(addr % 4)) % 256

\* A data word from its four bytes, byte 0 the least significant.
WordOf(b0, b1, b2, b3) == b0 + 256 * b1 + 65536 * b2 + 16777216 * b3

(***************************************************************************)
(* UserDiff and its constructors (program.rs).  An Option is a sequence of *)
(* length 0 (None) or 1 (Some).                                            *)
(***************************************************************************)
\* UserDiff::new
UserDiff_new(state, new_pc, reg_change, mem_change) ==
    [pc  |-> [old_pc |-> state.pc, new_pc |-> new_pc],
     reg |-> reg_change,
     mem |-> mem_change]

\* UserDiff::new_pc_p4 with the pc left where it was.
UserDiff_new_pc_p4_stuck(state, reg_change, mem_change) ==
    UserDiff_new(state, state.pc, reg_change, mem_change)

\* UserDiff::new_pc_p4
UserDiff_new_pc_p4(state, reg_change, mem_change) ==
    UserDiff_new(state, plus_4(state.pc), reg_change, mem_change)

\* UserDiff::noop
UserDiff_noop(state) == UserDiff_new_pc_p4(state, <<>>, <<>>)

\* UserDiff::pc_update_op
UserDiff_pc_update_op(state, new_pc) == UserDiff_new(state, new_pc, <<>>, <<>>)

\* UserDiff::reg_write_op
UserDiff_reg_write_op(state, new_pc, reg, val) ==
    UserDiff_new(state, new_pc,
                 <<[reg |-> reg,
                    val |-> [old_value |-> RegFile_read(state.regfile, reg),
                             new_value |-> val]]>>,
                 <<>>)

\* UserDiff::reg_write_pc_p4
UserDiff_reg_write_pc_p4(state, reg, val) ==
    UserDiff_reg_write_op(state, plus_4(state.pc), reg, val)

\* UserDiff::mem_write_op
UserDiff_mem_write_op(state, addr, val) ==
    UserDiff_new_pc_p4(state, <<>>,
                       <<[addr |-> addr,
                          val  |-> [old_value |-> Memory_get_word(state.memory, addr),
                                    new_value |-> val]]>>)

(***************************************************************************)
(* UserProgState::apply_diff and UserProgState::revert_diff.               *)
(***************************************************************************)
\* UserProgState::apply_diff that also clears t0.
UserProgState_apply_diff_clobber(state, diff) ==
    [pc      |-> diff.pc.new_pc,
     regfile |-> RegFile_set(IF diff.reg # <<>>
                             THEN RegFile_set(state.regfile, diff.reg[1].reg,
                                              diff.reg[1].val.new_value)
                             ELSE state.regfile, "t0", 0),
     memory  |-> IF diff.mem # <<>>
                 THEN Memory_set_word(state.memory, diff.mem[1].addr, diff.mem[1].val.new_value)
                 ELSE state.memory]

\* UserProgState::apply_diff
UserProgState_apply_diff(state, diff) ==
    [pc      |-> diff.pc.new_pc,
     regfile |-> IF diff.reg # <<>>
                 THEN RegFile_set(state.regfile, diff.reg[1].reg, diff.reg[1].val.new_value)
                 ELSE state.regfile,
     memory  |-> IF diff.mem # <<>>
                 THEN Memory_set_word(state.memory, diff.mem[1].addr, diff.mem[1].val.new_value)
                 ELSE state.memory]

\* UserProgState::revert_diff that restores the pc and the register but not the memory word.
UserProgState_revert_diff_nomem(state, diff) ==
    [pc      |-> diff.pc.old_pc,
     regfile |-> IF diff.reg # <<>>
                 THEN RegFile_set(state.regfile, diff.reg[1].reg, diff.reg[1].val.old_value)
                 ELSE state.regfile,
     memory  |-> state.memory]

\* UserProgState::revert_diff that restores the pc and the memory word but not the register.
UserProgState_revert_diff_noreg(state, diff) ==
    [pc      |-> diff.pc.old_pc,
     regfile |-> state.regfile,
     memory  |-> IF diff.mem # <<>>
                 THEN Memory_set_word(state.memory, diff.mem[1].addr, diff.mem[1].val.old_value)
                 ELSE state.memory]

\* UserProgState::revert_diff
UserProgState_revert_diff(state, diff) ==
    [pc      |-> diff.pc.old_pc,
     regfile |-> IF diff.reg # <<>>
                 THEN RegFile_set(state.regfile, diff.reg[1].reg, diff.reg[1].val.old_value)
                 ELSE state.regfile,
     memory  |-> IF diff.mem # <<>>
                 THEN Memory_set_word(state.memory, diff.mem[1].addr, diff.mem[1].val.old_value)
                 ELSE state.memory]

(***************************************************************************)
(* Privileged state of program.rs (PrivProgState) and the privileged       *)
(* changes (PrivStateChange).  A panic (panic!, unimplemented!) is the     *)
(* value Panic.                                                            *)
(***************************************************************************)
Panic == [tag |-> "Panic"]

\* ProgramState::syscall_write
syscall_write(fd, buf, len) == [tag |-> "FileWrite", fd |-> fd, buf |-> buf, len |-> len]

\* ProgramState::syscall_unknown
syscall_unknown == Panic

\* ProgramState::dispatch_syscall resolving every syscall but Write to no change.
dispatch_syscall_silent(state) ==
    LET rf == state.user_state.regfile
        a0 == RegFile_read(rf, syscall_arg_regs[1])
        a1 == RegFile_read(rf, syscall_arg_regs[2])
        a2 == RegFile_read(rf, syscall_arg_regs[3])
        nr == number_to_syscall(RegFile_read(rf, syscall_number_reg))
    IN  IF nr = "Write" THEN syscall_write(a0, a1, a2) ELSE [tag |-> "NoChange"]

\* ProgramState::dispatch_syscall
dispatch_syscall(state) ==
    LET rf == state.user_state.regfile
        a0 == RegFile_read(rf, syscall_arg_regs[1])
        a1 == RegFile_read(rf, syscall_arg_regs[2])
        a2 == RegFile_read(rf, syscall_arg_regs[3])
        nr == number_to_syscall(RegFile_read(rf, syscall_number_reg))
    IN  IF nr # "None"
        THEN IF nr = "Write" THEN syscall_write(a0, a1, a2) ELSE syscall_unknown
        ELSE syscall_unknown

\* ProgramState::handle_trap
handle_trap(state, trap_kind) ==
    IF trap_kind = "Ecall" THEN dispatch_syscall(state) ELSE Panic

\* len.into() and T::usgn_to_usize: the bits of the 32-bit register value read as an
\* unsigned count, given as hi * 2^31 + lo; a negative len is a count of 2^32 + len.
usgn_to_usize(len) ==
    IF len < 0 THEN [hi |-> 1, lo |-> (len + I32_MAX) + 1] ELSE [hi |-> 0, lo |-> len]

\* A Vec<u8> is held as a sequence of runs [byte, n], n copies of one byte with
\* 1 <= n <= RunCap; of two neighbouring runs of the same byte the first is full, so
\* equal byte sequences are equal sequences of runs.
RunCap == 1073741824

\* Vec::push of n copies of byte, 1 <= n <= RunCap.
Vec_push(vec, byte, n) ==
    IF vec = <<>> \/ vec[Len(vec)].byte # byte
    THEN Append(vec, [byte |-> byte, n |-> n])
    ELSE LET m == vec[Len(vec)].n
         IN  IF n <= RunCap - m
             THEN [vec EXCEPT ![Len(vec)].n = m + n]
             ELSE Append([vec EXCEPT ![Len(vec)].n = RunCap],
                         [byte |-> byte, n |-> (m - RunCap) + n])

\* Vec::extend: the bytes are pushed at the end, in their order.
RECURSIVE Vec_extend(_, _)
Vec_extend(vec, bytes) ==
    IF bytes = <<>> THEN vec
    ELSE Vec_extend(Vec_push(vec, bytes[1].byte, bytes[1].n), Tail(bytes))

\* The Vec<u8> of a sequence of bytes written out one by one.
RECURSIVE VecOf(_)
VecOf(seq) ==
    IF seq = <<>> THEN <<>> ELSE Vec_push(VecOf(SubSeq(seq, 1, Len(seq) - 1)), seq[Len(seq)], 1)

\* base_addr + T::usize_to_usgn(i) for 0 <= i <= RunCap, the + of u32: a sum of 2^32 or
\* more panics in a build with overflow checks and wraps in a build without them.
AddrAt(base_addr, i, overflow_checks) ==
    IF base_addr < 0 /\ base_addr + i >= 0
    THEN [panic |-> overflow_checks, addr |-> base_addr + i]
    ELSE [panic |-> FALSE,
          addr  |-> IF base_addr > I32_MAX - i
                    THEN ((base_addr - I32_MAX) - 1) + ((i - I32_MAX) - 1)
                    ELSE base_addr + i]

\* A count (hi * 2^31 + lo) less k, for a k that is not above it.
CountLess(count, k) ==
    IF count.lo >= k THEN [count EXCEPT !.lo = @ - k]
    ELSE [hi |-> count.hi - 1, lo |-> ((count.lo - k) + I32_MAX) + 1]

\* The smaller of a count and k.
CountMin(count, k) == IF count.hi > 0 \/ count.lo > k THEN k ELSE count.lo

\* How many of the next iterations of the map in FileWrite read a word that was never
\* stored, and so the byte 0: those up to the first byte of the next stored word, going
\* up from addr and wrapping at 2^32, at most left and at most RunCap.
UnmappedRun(memory, addr, left) ==
    LET BytesUpTo(w) ==
            LET words == (w - to_word_address(addr)) % WORDS
            IN  IF words <= RunCap \div 4 THEN 4 * words - (addr % 4) ELSE RunCap
        upto == {BytesUpTo(w) : w \in DOMAIN memory}
        next == IF upto = {} THEN RunCap ELSE CHOOSE d \in upto : \A e \in upto : d <= e
    IN  CountMin(left, next)

\* (i..count).map(|i| memory.get_byte(base_addr + i)).collect() with left iterations to
\* go, at the address of the next one and bytes collected: a byte of a stored word is
\* read by one iteration; over words that were never stored the iterations up to the
\* next stored word are taken in one step.  An address that overflows ends the map with
\* a panic where the build checks for it.
RECURSIVE FileWriteFrom(_, _, _, _, _)
FileWriteFrom(memory, at, left, bytes, overflow_checks) ==
    IF left.hi = 0 /\ left.lo = 0 THEN [panic |-> FALSE, bytes |-> bytes]
    ELSE IF at.panic THEN [panic |-> TRUE, bytes |-> <<>>]
    ELSE LET k == IF to_word_address(at.addr) \in DOMAIN memory THEN 1
                  ELSE UnmappedRun(memory, at.addr, left)
         IN  IF AddrAt(at.addr, k - 1, overflow_checks).panic
             THEN [panic |-> TRUE, bytes |-> <<>>]
             ELSE FileWriteFrom(memory, AddrAt(at.addr, k, overflow_checks),
                                CountLess(left, k),
                                Vec_push(bytes, Memory_get_byte(memory, at.addr), k),
                                overflow_checks)

\* The bytes a FileWrite reads: memory[buf], memory[buf + 1], ..., as many as the
\* unsigned count of len; or the panic of an address past 2^32 - 1.
FileWriteBytes(memory, buf, len, overflow_checks) ==
    FileWriteFrom(memory, AddrAt(buf, 0, overflow_checks), usgn_to_usize(len), <<>>,
                  overflow_checks)

\* PrivProgState::apply_diff: the new privileged state and the derived UserDiff, or the
\* panic of the FileWrite arm's address addition or of the Exit arm, with the state as
\* it was.  overflow_checks tells whether the build checks integer overflow.
PrivProgState_apply_diff(priv, state, diff, overflow_checks) ==
    CASE diff.tag = "NoChange" ->
            [panic |-> FALSE, priv |-> priv, user_diff |-> <<UserDiff_noop(state)>>]
      [] diff.tag = "FileWrite" ->
            LET read == FileWriteBytes(state.memory, diff.buf, diff.len, overflow_checks)
            IN  IF read.panic
                THEN [panic |-> TRUE, priv |-> priv, user_diff |-> <<>>]
                ELSE [panic |-> FALSE,
                      priv  |-> [priv EXCEPT !.stdout = Vec_extend(@, read.bytes)],
                      user_diff |-> <<UserDiff_reg_write_pc_p4(state, syscall_return_regs[1],
                                                               diff.len)>>]
      [] OTHER -> [panic |-> TRUE, priv |-> priv, user_diff |-> <<>>]

\* PrivProgState::revert_diff
PrivProgState_revert_diff(priv, state, diff) ==
    CASE diff.tag = "NoChange"  -> [panic |-> FALSE, priv |-> priv]
      [] diff.tag = "FileWrite" -> [panic |-> FALSE, priv |-> priv]
      [] OTHER                  -> [panic |-> TRUE, priv |-> priv]

\* ProgramState::revert_diff on a ProgramDiff (UserOnly or PrivOnly).
ProgramState_revert_diff(state, pdiff) ==
    IF pdiff.tag = "UserOnly"
    THEN [panic |-> FALSE,
          user_state |-> UserProgState_revert_diff(state.user_state, pdiff.diff),
          priv_state |-> state.priv_state]
    ELSE LET r == PrivProgState_revert_diff(state.priv_state, state.user_state, pdiff.diff)
         IN  [panic |-> r.panic, user_state |-> state.user_state, priv_state |-> r.priv]

(***************************************************************************)
(* Instructions.  An instruction is an evaluation procedure from the       *)
(* current state to an InstResult: a UserDiff or a trap.                   *)
(***************************************************************************)
I32_MIN == -I32_MAX - 1

\* Whether a + b leaves the signed 32-bit range (decided without computing a + b).
AddOverflows(a, b) == (b > 0 /\ a > I32_MAX - b) \/ (b < 0 /\ a < I32_MIN - b)
SubOverflows(a, b) == (b < 0 /\ a > I32_MAX + b) \/ (b > 0 /\ a < I32_MIN + b)

\* RType::eval of the checked add and sub: Result<RegValue, Exception>.
RType_eval(name, rs1_val, rs2_val) ==
    CASE name = "add" -> IF AddOverflows(rs1_val, rs2_val)
                         THEN [ok |-> FALSE, val |-> 0, err |-> "Overflow"]
                         ELSE [ok |-> TRUE, val |-> rs1_val + rs2_val, err |-> ""]
      [] OTHER        -> IF SubOverflows(rs1_val, rs2_val)
                         THEN [ok |-> FALSE, val |-> 0, err |-> "Overflow"]
                         ELSE [ok |-> TRUE, val |-> rs1_val - rs2_val, err |-> ""]

UserStateChange(diff) == [tag |-> "UserStateChange", diff |-> <<diff>>, trap_kind |-> ""]
Trap(kind) == [tag |-> "Trap", diff |-> <<>>, trap_kind |-> kind]

\* The closure of RType::new reading rs twice.
RType_apply_rsrs(inst, state) ==
    LET user_state_ == state.user_state
        maybe_new_rd_val == RType_eval(inst.name,
                                       RegFile_read(user_state_.regfile, inst.rs),
                                       RegFile_read(user_state_.regfile, inst.rs))
    IN  IF maybe_new_rd_val.ok
        THEN UserStateChange(UserDiff_reg_write_pc_p4(user_state_, inst.rd, maybe_new_rd_val.val))
        ELSE Trap("IntOverflow")

\* The closure if it took its second operand from a1 whatever rt is.
RType_apply_a1(inst, state) ==
    LET user_state_ == state.user_state
        maybe_new_rd_val == RType_eval(inst.name,
                                       RegFile_read(user_state_.regfile, inst.rs),
                                       RegFile_read(user_state_.regfile, "a1"))
    IN  IF maybe_new_rd_val.ok
        THEN UserStateChange(UserDiff_reg_write_pc_p4(user_state_, inst.rd, maybe_new_rd_val.val))
        ELSE Trap("IntOverflow")

\* The closure built by RType::new(rd, rs, rt).
RType_apply(inst, state) ==
    LET user_state_ == state.user_state
        maybe_new_rd_val == RType_eval(inst.name,
                                       RegFile_read(user_state_.regfile, inst.rs),
                                       RegFile_read(user_state_.regfile, inst.rt))
    IN  IF maybe_new_rd_val.ok
        THEN UserStateChange(UserDiff_reg_write_pc_p4(user_state_, inst.rd, maybe_new_rd_val.val))
        ELSE Trap("IntOverflow")

\* An instruction record; fields an operation does not use are 0 or "".
Inst(op, name, rd, rs, rt, target, addr, val) ==
    [op |-> op, name |-> name, rd |-> rd, rs |-> rs, rt |-> rt,
     target |-> target, addr |-> addr, val |-> val]

\* ConcreteInst::apply
Inst_apply(inst, state) ==
    CASE inst.op = "noop"         -> UserStateChange(UserDiff_noop(state.user_state))
      [] inst.op = "pc_update"    -> UserStateChange(UserDiff_pc_update_op(state.user_state, inst.target))
      [] inst.op = "reg_write"    -> UserStateChange(UserDiff_reg_write_pc_p4(state.user_state, inst.rd, inst.val))
      [] inst.op = "reg_write_op" -> UserStateChange(UserDiff_reg_write_op(state.user_state, inst.target, inst.rd, inst.val))
      [] inst.op = "mem_write"    -> UserStateChange(UserDiff_mem_write_op(state.user_state, inst.addr, inst.val))
      [] inst.op = "rtype"        -> RType_apply(inst, state)
      [] inst.op = "ecall"        -> Trap("Ecall")
      [] OTHER                    -> Trap("PageFault")

\* The instructions the model feeds to apply_inst.
InstSet ==
    {Inst("noop", "", "", "", "", 0, 0, 0),
     Inst("pc_update", "", "", "", "", TEXT_START_32 + 8, 0, 0),
     Inst("reg_write_op", "", "a0", "", "", TEXT_START_32 + 8, 0, 2),
     Inst("ecall", "", "", "", "", 0, 0, 0),
     Inst("page_fault", "", "", "", "", 0, 0, 0),
     Inst("rtype", "add", "a0", "t0", "a2", 0, 0, 0),
     Inst("rtype", "add", "t0", "a2", "a0", 0, 0, 0),
     Inst("rtype", "add", "a0", "t0", "t0", 0, 0, 0),
     Inst("rtype", "sub", "t0", "a2", "t0", 0, 0, 0)}
    \cup {Inst("reg_write", "", rd, "", "", 0, 0, v) : rd \in {"zero", "a2"}, v \in {1, 3}}
    \cup {Inst("mem_write", "", "", "", "", 0, a, WordOf(72, 105, 10, 0)) : a \in MemAddrs}

(***************************************************************************)
(* The state machine.                                                      *)
(***************************************************************************)
\* The whole ProgramState.
PS == [user_state |-> user_state, priv_state |-> priv_state]

NoCur == [inst |-> <<>>, trap_kind |-> "", before |-> <<>>, priv_diff |-> <<>>, user_diff |-> <<>>]
NoLast == [op |-> "none", inst |-> <<>>, result |-> <<>>, before |-> <<>>, entry |-> <<>>,
           chained |-> FALSE]
NoCause == [tag |-> "None", code |-> 0]

\* The values of the variables a specification does not use.
NoArgs == [insts |-> <<>>, data |-> <<>>, rodata |-> <<>>]
NoPrivS == [brk |-> 0, heap_start |-> 0, page_table |-> {}, stdout |-> <<>>, stderr |-> <<>>]
NoDriver == [status |-> "none", cause |-> NoCause, terminate_applied |-> FALSE]
NoCmp == [a |-> <<>>, b |-> <<>>, eq |-> <<>>, words |-> <<>>]
NoDet == [other |-> <<>>, inst |-> <<>>, result |-> <<>>, other_result |-> <<>>,
          before |-> <<>>, other_before |-> <<>>]
RunIdle == args = NoArgs /\ insts = <<>> /\ run_status = "none" /\ run_ret = <<>>
TermIdle == priv_s = NoPrivS /\ driver = NoDriver
EncIdle == cmp = NoCmp /\ det = NoDet
NoBm == [bit_cnt |-> 0, bits |-> <<>>]
NoAsm == [op |-> "none"]
LibIdle == bm = NoBm /\ asm = NoAsm

\* PrivProgState::new
PrivProgState_new == [stdout |-> <<>>, stderr |-> <<>>]

\* ProgramState::new followed by the caller's set_user_pc, regfile_set and memory_set_word:
\* a Write/Read/unknown syscall number, a file descriptor, a buffer address and a length.
InitUserStates ==
    {[pc |-> TEXT_START_32,
      regfile |-> [r \in Regs |->
                     CASE r = "a7" -> nr [] r = "a0" -> fd [] r = "a1" -> buf
                       [] r = "a2" -> len [] r = "t0" -> I32_MAX [] OTHER -> 0],
      memory |-> [a \in MemAddrs |->
                     IF a = to_word_address(DATA_START_32)
                     THEN WordOf(65, 66, 67, 68) ELSE WordOf(69, 70, 0, 0)]] :
        nr \in {1, 0, 99}, fd \in {1, 2},
        buf \in {DATA_START_32, DATA_START_32 + 3}, len \in {0, 2}}

Init ==
    /\ user_state \in InitUserStates
    /\ priv_state = PrivProgState_new
    /\ phase = "idle"
    /\ cur = NoCur
    /\ undo = <<>>
    /\ last = NoLast
    /\ steps = 0
    /\ term_cause = NoCause
    /\ exit_status = -1
    /\ RunIdle /\ TermIdle /\ EncIdle
    /\ origin = <<PS>>
    /\ LibIdle

\* An entry of the caller's undo stack: a ProgramDiff, the call it came from, and the
\* ProgramState before that call.  computed tells that the diff was computed from that
\* state, intact that moreover the owner has, since the diff was applied, changed the
\* state by apply_inst and revert_diff only.
UndoEntry(tag, diff, id, inst, before) ==
    [tag |-> tag, diff |-> diff, id |-> id, inst |-> inst, before |-> before,
     computed |-> TRUE, intact |-> TRUE]

\* The undo stack after the owner changed the state by a setter or by a diff of its own.
Tampered(entries) == [k \in 1 .. Len(entries) |-> [entries[k] EXCEPT !.intact = FALSE]]

\* ProgramState::apply_inst: evaluate the instruction; a UserDiff is applied at once,
\* a trap enters ProgramState::apply_diff's trap arm.
ProgramState_apply_inst(inst) ==
    /\ phase = "idle"
    /\ steps' = steps + 1
    /\ LET r == Inst_apply(inst, PS)
       IN  IF r.tag = "UserStateChange"
           THEN /\ user_state' = UserProgState_apply_diff(user_state, r.diff[1])
                /\ undo' = Append(undo, UndoEntry("UserOnly", r.diff[1], steps', inst, PS))
                /\ last' = [op |-> "apply", inst |-> <<inst>>, result |-> <<r>>,
                            before |-> <<PS>>, entry |-> <<>>, chained |-> FALSE]
                /\ UNCHANGED <<priv_state, phase, cur>>
           ELSE /\ phase' = "trap"
                /\ cur' = [inst |-> <<inst>>, trap_kind |-> r.trap_kind, before |-> <<PS>>,
                           priv_diff |-> <<>>, user_diff |-> <<>>]
                /\ UNCHANGED <<user_state, priv_state, undo, last>>
    /\ UNCHANGED <<term_cause, exit_status, runVars, termVars, encVars>>

\* The caller applies one more instruction of its choice.
ApplyInst(inst) ==
    /\ steps < MaxSteps
    /\ ProgramState_apply_inst(inst)

\* ProgramState::set_user_pc, ProgramState::regfile_set and ProgramState::memory_set_word.
ProgramState_set_user_pc(ustate, addr) == [ustate EXCEPT !.pc = addr]
ProgramState_regfile_set(ustate, reg, val) ==
    [ustate EXCEPT !.regfile = RegFile_set(@, reg, val)]
ProgramState_memory_set_word(ustate, addr, val) ==
    [ustate EXCEPT !.memory = Memory_set_word(@, addr, val)]

\* The setter calls the owner makes on a live state.
SetterCall(op, reg, addr, val) == [op |-> op, reg |-> reg, addr |-> addr, val |-> val]
SetterCalls ==
    {SetterCall("set_user_pc", "", TEXT_START_32 + 16, 0),
     SetterCall("regfile_set", "a0", 0, 7),
     SetterCall("regfile_set", "t0", 0, 5),
     SetterCall("regfile_set", "zero", 0, 7),
     SetterCall("regfile_set", "a2", 0, -1),
     SetterCall("memory_set_word", "", to_word_address(DATA_START_32), 5)}

\* Between two calls of apply_inst or revert_diff the owner calls one of the public
\* setters; the setter changes the pc, one register or one memory word and nothing
\* else.  The calls count as steps.
Setter(call) ==
    /\ phase = "idle"
    /\ steps < MaxSteps
    /\ steps' = steps + 1
    /\ user_state' =
          CASE call.op = "set_user_pc" -> ProgramState_set_user_pc(user_state, call.addr)
            [] call.op = "regfile_set" ->
                  ProgramState_regfile_set(user_state, call.reg, call.val)
            [] OTHER -> ProgramState_memory_set_word(user_state, call.addr, call.val)
    /\ undo' = Tampered(undo)
    /\ origin' = IF undo = <<>>
                 THEN <<[user_state |-> user_state', priv_state |-> priv_state]>>
                 ELSE origin
    /\ last' = [op |-> "set", inst |-> <<>>, result |-> <<>>, before |-> <<PS>>,
                entry |-> <<>>, chained |-> FALSE]
    /\ UNCHANGED <<priv_state, phase, cur, term_cause, exit_status, runVars, termVars,
                   cmp, det, libVars>>

\* The owner calls the public ProgramState::apply_diff with the InstResult of its last
\* apply_inst call once more: a result that was not computed from the current state.
\* A UserDiff is applied as it is, a trap is resolved against the current state.
ApplyDiffAgain ==
    /\ phase = "idle"
    /\ steps < MaxSteps
    /\ last.op = "apply"
    /\ steps' = steps + 1
    /\ LET r == last.result[1]
           inst == last.inst[1]
       IN  IF r.tag = "UserStateChange"
           THEN /\ user_state' = UserProgState_apply_diff(user_state, r.diff[1])
                /\ undo' = Append(Tampered(undo),
                                  [UndoEntry("UserOnly", r.diff[1], steps', inst, PS)
                                      EXCEPT !.computed = FALSE, !.intact = FALSE])
                /\ last' = [op |-> "apply_diff", inst |-> <<inst>>, result |-> <<r>>,
                            before |-> <<PS>>, entry |-> <<>>, chained |-> FALSE]
                /\ UNCHANGED <<priv_state, phase, cur>>
           ELSE /\ phase' = "trap"
                /\ cur' = [inst |-> <<inst>>, trap_kind |-> r.trap_kind, before |-> <<PS>>,
                           priv_diff |-> <<>>, user_diff |-> <<>>]
                /\ UNCHANGED <<user_state, priv_state, undo, last>>
    /\ UNCHANGED <<term_cause, exit_status, runVars, termVars, encVars>>

\* The first statement of the trap arm if resolving the trap advanced the pc itself.
TrapResolve_advancing ==
    /\ phase = "trap"
    /\ LET priv_diff == handle_trap(PS, cur.trap_kind)
       IN  IF priv_diff.tag = "Panic"
           THEN /\ phase' = "aborted"
                /\ UNCHANGED <<cur, user_state>>
           ELSE /\ phase' = "priv"
                /\ cur' = [cur EXCEPT !.priv_diff = <<priv_diff>>]
                /\ user_state' = [user_state EXCEPT !.pc = plus_4(@)]
    /\ UNCHANGED <<priv_state, undo, last, steps, term_cause, exit_status, runVars, termVars, encVars>>

\* ProgramState::apply_diff, trap arm, first statement: handle_trap resolves the trap
\* into a privileged change, or panics.
TrapResolve ==
    /\ phase = "trap"
    /\ LET priv_diff == handle_trap(PS, cur.trap_kind)
       IN  IF priv_diff.tag = "Panic"
           THEN /\ phase' = "aborted"
                /\ UNCHANGED cur
           ELSE /\ phase' = "priv"
                /\ cur' = [cur EXCEPT !.priv_diff = <<priv_diff>>]
    /\ UNCHANGED <<user_state, priv_state, undo, last, steps, term_cause, exit_status, runVars, termVars, encVars>>

\* The trap arm with its statements in the other order: the derived UserDiff is applied
\* to the user state while the privileged change is still to be applied.
TrapPrivApply_user_first ==
    /\ phase = "priv"
    /\ \E overflow_checks \in BOOLEAN :
       LET r == PrivProgState_apply_diff(priv_state, user_state, cur.priv_diff[1],
                                         overflow_checks)
       IN  /\ ~r.panic
           /\ phase' = "user"
           /\ user_state' = UserProgState_apply_diff(user_state, r.user_diff[1])
           /\ cur' = [cur EXCEPT !.user_diff = r.user_diff]
    /\ UNCHANGED <<priv_state, undo, last, steps, term_cause, exit_status, runVars, termVars, encVars>>

\* ProgramState::apply_diff, trap arm, second statement: the privileged change is
\* applied to the privileged state and yields the derived UserDiff, or panics.  The
\* program is built with overflow checks or without them.
TrapPrivApply ==
    /\ phase = "priv"
    /\ \E overflow_checks \in BOOLEAN :
       LET r == PrivProgState_apply_diff(priv_state, user_state, cur.priv_diff[1],
                                         overflow_checks)
       IN  IF r.panic
           THEN /\ phase' = "aborted"
                /\ UNCHANGED <<priv_state, cur>>
           ELSE /\ phase' = "user"
                /\ priv_state' = r.priv
                /\ cur' = [cur EXCEPT !.user_diff = r.user_diff]
    /\ UNCHANGED <<user_state, undo, last, steps, term_cause, exit_status, runVars, termVars, encVars>>

\* The trap arm without its third statement: apply_inst returns and the derived UserDiff
\* has not been applied.
TrapUserApply_dropped ==
    /\ phase = "user"
    /\ undo' = undo \o <<UndoEntry("PrivOnly", cur.priv_diff[1], steps, cur.inst[1], cur.before[1]),
                         UndoEntry("UserOnly", cur.user_diff[1], steps, cur.inst[1], PS)>>
    /\ last' = [op |-> "apply", inst |-> cur.inst, result |-> <<Trap(cur.trap_kind)>>,
                before |-> cur.before, entry |-> <<>>, chained |-> FALSE]
    /\ phase' = "idle"
    /\ cur' = NoCur
    /\ UNCHANGED <<user_state, priv_state, steps, term_cause, exit_status, runVars, termVars, encVars>>

\* ProgramState::apply_diff, trap arm, third statement: the derived UserDiff is applied
\* to the user state and apply_inst returns.
TrapUserApply ==
    /\ phase = "user"
    /\ user_state' = UserProgState_apply_diff(user_state, cur.user_diff[1])
    /\ undo' = undo \o <<UndoEntry("PrivOnly", cur.priv_diff[1], steps, cur.inst[1], cur.before[1]),
                         UndoEntry("UserOnly", cur.user_diff[1], steps, cur.inst[1], PS)>>
    /\ last' = [op |-> "apply", inst |-> cur.inst, result |-> <<Trap(cur.trap_kind)>>,
                before |-> cur.before, entry |-> <<>>, chained |-> FALSE]
    /\ phase' = "idle"
    /\ cur' = NoCur
    /\ UNCHANGED <<priv_state, steps, term_cause, exit_status, runVars, termVars, encVars>>

\* The caller undoes the most recently applied diff: ProgramState::revert_diff.
Revert ==
    /\ phase = "idle"
    /\ undo # <<>>
    /\ LET e == undo[Len(undo)]
           r == ProgramState_revert_diff(PS, e)
       IN  /\ undo' = SubSeq(undo, 1, Len(undo) - 1)
           /\ IF r.panic
              THEN /\ phase' = "aborted"
                   /\ UNCHANGED <<user_state, priv_state>>
              ELSE /\ phase' = "idle"
                   /\ user_state' = r.user_state
                   /\ priv_state' = r.priv_state
           /\ last' = [op |-> "revert", inst |-> <<e.inst>>, result |-> <<>>,
                       before |-> <<>>, entry |-> <<e>>,
                       chained |-> /\ last.op = "revert"
                                   /\ last.entry[1].tag = "UserOnly"
                                   /\ last.entry[1].id = e.id]
           /\ origin' = IF ~e.intact /\ Len(undo) = 1 /\ ~r.panic
                        THEN <<[user_state |-> r.user_state, priv_state |-> r.priv_state]>>
                        ELSE origin
    /\ UNCHANGED <<cur, steps, term_cause, exit_status, runVars, termVars, cmp, det, libVars>>

Next ==
    \/ \E inst \in InstSet : ApplyInst(inst)
    \/ TrapResolve
    \/ TrapPrivApply
    \/ TrapUserApply
    \/ Revert
    \/ \E call \in SetterCalls : Setter(call)
    \/ ApplyDiffAgain

Spec == Init /\ [][Next]_vars

(***************************************************************************)
(* Termination handling: TermCause::handle_exit (priv_s.rs).               *)
(***************************************************************************)
RECURSIVE BitAnd(_, _)
\* a & b on unsigned values, bit by bit.
BitAnd(a, b) ==
    IF a = 0 \/ b = 0 THEN 0
    ELSE (a % 2) * (b % 2) + 2 * BitAnd(a \div 2, b \div 2)

RECURSIVE BitOr(_, _)
\* a | b on unsigned values, bit by bit.
BitOr(a, b) ==
    IF a = 0 THEN b
    ELSE IF b = 0 THEN a
    ELSE (IF a % 2 = 1 \/ b % 2 = 1 THEN 1 ELSE 0) + 2 * BitOr(a \div 2, b \div 2)

\* `n as u8`: the low eight bits of a u32.
AsU8(n) == n % 256

\* "Segmentation fault: 11\n" and "bus error\n" as bytes.
SegFaultMsg == <<83, 101, 103, 109, 101, 110, 116, 97, 116, 105, 111, 110, 32,
                 102, 97, 117, 108, 116, 58, 32, 49, 49, 10>>
BusErrorMsg == <<98, 117, 115, 32, 101, 114, 114, 111, 114, 10>>

\* ProgramState::write_stderr: the bytes of the string are appended to the captured stderr.
write_stderr(program_state, bytes) ==
    [program_state EXCEPT !.priv_state.stderr = Vec_extend(@, VecOf(bytes))]

\* TermCause::handle_exit without the narrowing to the low seven bits.
TermCause_handle_exit_nomask(cause, program_state) ==
    CASE cause.tag = "Exit" ->
            [status |-> AsU8(cause.code), program_state |-> program_state]
      [] cause.tag = "SegFault" ->
            [status |-> BitOr(11, ABNORMAL_MASK),
             program_state |-> write_stderr(program_state, SegFaultMsg)]
      [] OTHER ->
            [status |-> BitOr(10, ABNORMAL_MASK),
             program_state |-> write_stderr(program_state, BusErrorMsg)]

\* TermCause::handle_exit that reports a bus error to the captured stdout.
TermCause_handle_exit_stdout(cause, program_state) ==
    CASE cause.tag = "Exit" ->
            [status |-> BitAnd(AsU8(cause.code), NORMAL_MASK), program_state |-> program_state]
      [] cause.tag = "SegFault" ->
            [status |-> BitOr(11, ABNORMAL_MASK),
             program_state |-> write_stderr(program_state, SegFaultMsg)]
      [] OTHER ->
            [status |-> BitOr(10, ABNORMAL_MASK),
             program_state |-> [program_state EXCEPT !.priv_state.stdout =
                                                     Vec_extend(@, VecOf(BusErrorMsg))]]

\* TermCause::handle_exit: the exit code and the program state after any message.
TermCause_handle_exit(cause, program_state) ==
    CASE cause.tag = "Exit" ->
            [status |-> BitAnd(AsU8(cause.code), NORMAL_MASK), program_state |-> program_state]
      [] cause.tag = "SegFault" ->
            [status |-> BitOr(11, ABNORMAL_MASK),
             program_state |-> write_stderr(program_state, SegFaultMsg)]
      [] OTHER ->
            [status |-> BitOr(10, ABNORMAL_MASK),
             program_state |-> write_stderr(program_state, BusErrorMsg)]

\* The termination causes handed to handle_exit.
TermCauses ==
    {[tag |-> "Exit", code |-> n] : n \in 0..MaxExitCode}
    \cup {[tag |-> "SegFault", code |-> 0], [tag |-> "BusError", code |-> 0]}

\* The captured streams when the program terminates: nothing, or "Hi" on stdout and
\* "E" on stderr from earlier writes.
ExitStreams ==
    {[stdout |-> VecOf(out), stderr |-> VecOf(err)] :
        out \in {<<>>, <<72, 105>>}, err \in {<<>>, <<69>>}}

InitExit ==
    /\ user_state \in InitUserStates
    /\ user_state.regfile["a7"] = 1 /\ user_state.regfile["a0"] = 1
    /\ user_state.regfile["a1"] = DATA_START_32 /\ user_state.regfile["a2"] = 0
    /\ priv_state \in ExitStreams
    /\ phase = "idle"
    /\ cur = NoCur
    /\ undo = <<>>
    /\ last = NoLast
    /\ steps = 0
    /\ term_cause \in TermCauses
    /\ exit_status = -1
    /\ RunIdle /\ TermIdle /\ EncIdle
    /\ origin = <<>>
    /\ LibIdle

\* The driver calls cause.handle_exit(&mut program_state) once.
HandleExit ==
    /\ exit_status = -1
    /\ term_cause.tag # "None"
    /\ LET r == TermCause_handle_exit(term_cause, PS)
       IN  /\ exit_status' = r.status
           /\ user_state' = r.program_state.user_state
           /\ priv_state' = r.program_state.priv_state
    /\ last' = [NoLast EXCEPT !.op = "handle_exit", !.before = <<PS>>]
    /\ UNCHANGED <<phase, cur, undo, steps, term_cause, runVars, termVars, encVars>>

NextExit == HandleExit

SpecExit == InitExit /\ [][NextExit]_vars

(***************************************************************************)
(* Memory faults of the page-table layer ending the program (priv_s.rs).   *)
(***************************************************************************)
\* impl From<MemFault> for TermCause that reports every fault at address 0 as a
\* segmentation fault.
TermCause_from_null(fault) ==
    CASE fault.user_vaddr = 0 -> [tag |-> "SegFault", code |-> 0]
      [] fault.cause = "PageFault" -> [tag |-> "SegFault", code |-> 0]
      [] fault.cause = "SegFault" -> [tag |-> "SegFault", code |-> 0]
      [] OTHER -> [tag |-> "BusError", code |-> 0]

\* impl From<MemFault> for TermCause
TermCause_from(fault) ==
    CASE fault.cause = "PageFault" -> [tag |-> "SegFault", code |-> 0]
      [] fault.cause = "SegFault" -> [tag |-> "SegFault", code |-> 0]
      [] fault.cause = "BusError" -> [tag |-> "BusError", code |-> 0]

\* The faults the page-table layer reports: the faulting address and a MemFaultCause.
MemFaults ==
    {[user_vaddr |-> a, cause |-> c] :
        a \in {0, TEXT_START_32, DATA_START_32, DATA_START_32 + 8, STACK_START_32},
        c \in {"PageFault", "SegFault", "BusError"}}

InitFault ==
    /\ user_state \in InitUserStates
    /\ user_state.regfile["a7"] = 1 /\ user_state.regfile["a0"] = 1
    /\ user_state.regfile["a1"] = DATA_START_32 /\ user_state.regfile["a2"] = 0
    /\ priv_state \in ExitStreams
    /\ phase = "idle"
    /\ cur = NoCur
    /\ undo = <<>>
    /\ last = NoLast
    /\ steps = 0
    /\ term_cause = NoCause
    /\ exit_status = -1
    /\ RunIdle /\ TermIdle /\ EncIdle
    /\ origin = <<>>
    /\ LibIdle

\* A memory access failed: the driver turns the fault into a TermCause.
FaultTranslate(fault) ==
    /\ last.op = "none"
    /\ term_cause' = TermCause_from(fault)
    /\ last' = [NoLast EXCEPT !.op = "from_fault", !.entry = <<fault>>]
    /\ UNCHANGED <<user_state, priv_state, phase, cur, undo, steps, exit_status, runVars,
                   termVars, encVars>>

\* The driver calls handle_exit on the cause it got from the fault.
FaultExit ==
    /\ last.op = "from_fault"
    /\ LET r == TermCause_handle_exit(term_cause, PS)
       IN  /\ exit_status' = r.status
           /\ user_state' = r.program_state.user_state
           /\ priv_state' = r.program_state.priv_state
    /\ last' = [last EXCEPT !.op = "fault_exit", !.before = <<PS>>]
    /\ UNCHANGED <<phase, cur, undo, steps, term_cause, runVars, termVars, encVars>>

NextFault ==
    \/ \E fault \in MemFaults : FaultTranslate(fault)
    \/ FaultExit

SpecFault == InitFault /\ [][NextFault]_vars

(***************************************************************************)
(* Machine code: BitStr32 fields, MipsInst and its encoding and equality   *)
(* (mips/instruction.rs).                                                  *)
(***************************************************************************)
\* BitStr32::new: a string of len bits holding value.
BitStr32_new(value, len) == [value |-> value, len |-> len]

\* BitStr32 + BitStr32: concatenation, the left operand in the high bits.
BitStr32_concat(a, b) == [value |-> a.value * 2^(b.len) + b.value, len |-> a.len + b.len]

\* BitStr32::as_u32
as_u32(b) == b.value

\* The number of a register and its five-bit field.
RegIndex(reg) ==
    CASE reg = "zero" -> 0 [] reg = "sp" -> 2 [] reg = "t0" -> 5 [] reg = "a0" -> 10
      [] reg = "a1" -> 11 [] reg = "a2" -> 12 [] OTHER -> 17
to_bit_str(reg) == BitStr32_new(RegIndex(reg), 5)

\* RInstFields and the three variants of InstFields; a field a variant does not have
\* is the empty bit string or "".
NoBits == BitStr32_new(0, 0)
RInstFields(opcode, shamt, funct) ==
    [opcode |-> BitStr32_new(opcode, 6), shamt |-> BitStr32_new(shamt, 5),
     funct |-> BitStr32_new(funct, 6)]
InstFields_R(rd, rs, rt, fields) ==
    [tag |-> "R", rd |-> rd, rs |-> rs, rt |-> rt, opcode |-> fields.opcode,
     shamt |-> fields.shamt, funct |-> fields.funct, imm |-> NoBits, addr |-> NoBits]
InstFields_I(opcode, rs, rt, imm) ==
    [tag |-> "I", rd |-> "", rs |-> rs, rt |-> rt, opcode |-> opcode,
     shamt |-> NoBits, funct |-> NoBits, imm |-> imm, addr |-> NoBits]
InstFields_J(opcode, addr) ==
    [tag |-> "J", rd |-> "", rs |-> "", rt |-> "", opcode |-> opcode,
     shamt |-> NoBits, funct |-> NoBits, imm |-> NoBits, addr |-> addr]

\* InstData::new
InstData_new(name, fields) == [name |-> name, fields |-> fields]

\* The match with the two source registers of the R and I formats in the other order.
to_machine_code_rt_rs(fields) ==
    as_u32(
      CASE fields.tag = "R" ->
             BitStr32_concat(BitStr32_concat(BitStr32_concat(BitStr32_concat(BitStr32_concat(
               fields.opcode, to_bit_str(fields.rt)), to_bit_str(fields.rs)),
               to_bit_str(fields.rd)), fields.shamt), fields.funct)
        [] fields.tag = "I" ->
             BitStr32_concat(BitStr32_concat(BitStr32_concat(
               fields.opcode, to_bit_str(fields.rt)), to_bit_str(fields.rs)), fields.imm)
        [] OTHER ->
             BitStr32_concat(fields.opcode, fields.addr))

\* The match of MipsInst::to_machine_code on the fields of an instruction.
to_machine_code(fields) ==
    as_u32(
      CASE fields.tag = "R" ->
             BitStr32_concat(BitStr32_concat(BitStr32_concat(BitStr32_concat(BitStr32_concat(
               fields.opcode, to_bit_str(fields.rs)), to_bit_str(fields.rt)),
               to_bit_str(fields.rd)), fields.shamt), fields.funct)
        [] fields.tag = "I" ->
             BitStr32_concat(BitStr32_concat(BitStr32_concat(
               fields.opcode, to_bit_str(fields.rs)), to_bit_str(fields.rt)), fields.imm)
        [] OTHER ->
             BitStr32_concat(fields.opcode, fields.addr))

\* MipsInst::to_machine_code
MipsInst_to_machine_code(inst) == to_machine_code(inst.data.fields)

\* Equality as a derived, field-by-field comparison of the instruction data.
MipsInst_eq_derived(a, b) == a.data = b.data

\* PartialEq for MipsInst
MipsInst_eq(a, b) == MipsInst_to_machine_code(a) = MipsInst_to_machine_code(b)

\* RType::new, IType::new and JType::new for an implementing type t, which supplies
\* name(), inst_fields() or opcode(), and eval.
RType_new(t, rd, rs, rt) ==
    [eval |-> [of |-> t.eval, rd |-> rd, rs |-> rs, rt |-> rt, imm |-> NoBits],
     data |-> InstData_new(t.name, InstFields_R(rd, rs, rt, t.inst_fields))]
IType_new(t, rs, rt, imm) ==
    [eval |-> [of |-> t.eval, rd |-> "", rs |-> rs, rt |-> rt, imm |-> imm],
     data |-> InstData_new(t.name, InstFields_I(t.opcode, rs, rt, imm))]
JType_new(t, addr) ==
    [eval |-> [of |-> t.eval, rd |-> "", rs |-> "", rt |-> "", imm |-> addr],
     data |-> InstData_new(t.name, InstFields_J(t.opcode, addr))]

\* Implementing types: Add and Sub, and Plus, an implementor that has Add's fields under
\* another name and with another eval; two I types and two J types.
RTypes ==
    {[name |-> "add", eval |-> "add", inst_fields |-> RInstFields(0, 0, 32)],
     [name |-> "sub", eval |-> "sub", inst_fields |-> RInstFields(0, 0, 34)],
     [name |-> "plus", eval |-> "sub", inst_fields |-> RInstFields(0, 0, 32)]}
ITypes ==
    {[name |-> "addi", eval |-> "addi", opcode |-> BitStr32_new(8, 6)],
     [name |-> "ori", eval |-> "ori", opcode |-> BitStr32_new(13, 6)]}
JTypes ==
    {[name |-> "j", eval |-> "j", opcode |-> BitStr32_new(2, 6)],
     [name |-> "jal", eval |-> "jal", opcode |-> BitStr32_new(3, 6)]}

\* The instructions that are compared.
MipsInstSet ==
    {RType_new(t, rd, "a1", rt) : t \in RTypes, rd \in {"a0", "t0"}, rt \in {"a2", "zero"}}
    \cup {IType_new(t, "a1", rt, BitStr32_new(5, 16)) : t \in ITypes, rt \in {"a0", "t0"}}
    \cup {JType_new(t, BitStr32_new(16, 26)) : t \in JTypes}

InitEnc ==
    /\ user_state \in InitUserStates
    /\ user_state.regfile["a7"] = 1 /\ user_state.regfile["a0"] = 1
    /\ user_state.regfile["a1"] = DATA_START_32 /\ user_state.regfile["a2"] = 0
    /\ priv_state = PrivProgState_new
    /\ phase = "idle"
    /\ cur = NoCur
    /\ undo = <<>>
    /\ last = NoLast
    /\ steps = 0
    /\ term_cause = NoCause
    /\ exit_status = -1
    /\ RunIdle /\ TermIdle
    /\ \E a \in MipsInstSet, b \in MipsInstSet : cmp = [a |-> <<a>>, b |-> <<b>>, eq |-> <<>>, words |-> <<>>]
    /\ det = NoDet
    /\ origin = <<>>
    /\ LibIdle

\* a == b is evaluated.
Compare ==
    /\ cmp.eq = <<>>
    /\ cmp' = [cmp EXCEPT !.eq = <<MipsInst_eq(cmp.a[1], cmp.b[1])>>]
    /\ UNCHANGED <<user_state, priv_state, phase, cur, undo, last, steps, term_cause,
                   exit_status, runVars, termVars, det, origin, libVars>>

\* a.to_machine_code() is called twice and b.to_machine_code() once.
Encode ==
    /\ cmp.words = <<>>
    /\ cmp' = [cmp EXCEPT !.words = <<MipsInst_to_machine_code(cmp.a[1]),
                                      MipsInst_to_machine_code(cmp.a[1]),
                                      MipsInst_to_machine_code(cmp.b[1])>>]
    /\ UNCHANGED <<user_state, priv_state, phase, cur, undo, last, steps, term_cause,
                   exit_status, runVars, termVars, det, origin, libVars>>

NextEnc ==
    \/ Compare
    \/ Encode

SpecEnc == InitEnc /\ [][NextEnc]_vars

(***************************************************************************)
(* Loading and running a program: RiscVProgram::new and RiscVProgram::run  *)
(* (riscv/program.rs).                                                     *)
(***************************************************************************)
\* The machine-code fields of an instruction of a program.
Inst_fields(inst) ==
    CASE inst.op = "noop" ->
            InstFields_R("zero", "zero", "zero", RInstFields(0, 0, 0))
      [] inst.op = "pc_update" ->
            InstFields_J(BitStr32_new(2, 6), BitStr32_new(to_word_address(inst.target) % 2^26, 26))
      [] inst.op = "reg_write" ->
            InstFields_I(BitStr32_new(8, 6), "zero", inst.rd, BitStr32_new(inst.val % 2^16, 16))
      [] inst.op = "reg_write_op" ->
            InstFields_I(BitStr32_new(9, 6), "zero", inst.rd, BitStr32_new(inst.val % 2^16, 16))
      [] inst.op = "mem_write" ->
            InstFields_I(BitStr32_new(11, 6), "zero", "zero", BitStr32_new(inst.val % 2^16, 16))
      [] inst.op = "rtype" ->
            InstFields_R(inst.rd, inst.rs, inst.rt,
                         RInstFields(0, 0, IF inst.name = "add" THEN 32 ELSE 34))
      [] inst.op = "ecall" ->
            InstFields_R("zero", "zero", "zero", RInstFields(0, 0, 12))
      [] OTHER ->
            InstFields_R("zero", "zero", "zero", RInstFields(0, 0, 13))

\* ConcreteInst::to_machine_code of an instruction of a program.
Inst_to_machine_code(inst) == to_machine_code(Inst_fields(inst))

\* Memory::set_byte: one byte of the word that holds it is replaced.
Memory_set_byte(memory, addr, byte) ==
    LET w == to_word_address(addr)
        k == addr % 4
    IN  Memory_set_word(memory, w,
            Memory_get_word(memory, w) - Memory_get_byte(memory, addr) * Pow256(k)
              + byte * Pow256(k))

\* UserProgState::new and ProgramState::new; addrs are the memory words the model keeps.
UserProgState_new(addrs) ==
    [pc |-> 0, regfile |-> [r \in Regs |-> 0], memory |-> [a \in addrs |-> 0]]
ProgramState_new(addrs) ==
    [user_state |-> UserProgState_new(addrs), priv_state |-> PrivProgState_new]

RECURSIVE StoreInsts_fixed(_, _, _)
\* The instruction loop without `next_addr = next_addr.plus_4()`.
StoreInsts_fixed(memory, is, next_addr) ==
    IF is = <<>> THEN memory
    ELSE StoreInsts_fixed(
           Memory_set_word(memory, to_word_address(next_addr), Inst_to_machine_code(Head(is))),
           Tail(is), next_addr)

RECURSIVE StoreInsts(_, _, _)
\* RiscVProgram::new, "store instructions": each word goes to next_addr, which then
\* advances by 4.
StoreInsts(memory, is, next_addr) ==
    IF is = <<>> THEN memory
    ELSE StoreInsts(
           Memory_set_word(memory, to_word_address(next_addr), Inst_to_machine_code(Head(is))),
           Tail(is), plus_4(next_addr))

RECURSIVE StoreData(_, _)
\* RiscVProgram::new, "store data": every byte of the chain is set at DATA_START_32; the
\* offset that enumerate() yields is not used.
StoreData(memory, all_data) ==
    IF all_data = <<>> THEN memory
    ELSE StoreData(Memory_set_byte(memory, DATA_START_32, Head(all_data)), Tail(all_data))

\* RiscVProgram::new without the write of the stack pointer.
RiscVProgram_new_nosp(is, sections, state) ==
    [insts |-> is,
     state |-> [state EXCEPT
                  !.user_state.pc = TEXT_START_32,
                  !.user_state.memory =
                      StoreData(StoreInsts(@, is, TEXT_START_32),
                                sections.data \o sections.rodata)]]

\* RiscVProgram::new; state is the value of ProgramState::new().
RiscVProgram_new(is, sections, state) ==
    [insts |-> is,
     state |-> [state EXCEPT
                  !.user_state.regfile = RegFile_set(@, "sp", STACK_START_32),
                  !.user_state.pc = TEXT_START_32,
                  !.user_state.memory =
                      StoreData(StoreInsts(@, is, TEXT_START_32),
                                sections.data \o sections.rodata)]]

\* The index run() computes with the byte offset itself.
RunIndex_bytes(pc, pc_start) ==
    IF pc >= pc_start THEN pc - pc_start
    ELSE 2^30 - ((pc_start - pc + 3) \div 4)

\* u32::wrapping_sub(pc, pc_start), then to_word_address, as usize: below pc_start the
\* difference wraps around 2^32.
RunIndex(pc, pc_start) ==
    IF pc >= pc_start THEN to_word_address(pc - pc_start)
    ELSE 2^30 - ((pc_start - pc + 3) \div 4)

\* Vec::get: the element at a zero-based index, if there is one.
Vec_get(v, i) == IF i < Len(v) THEN <<v[i + 1]>> ELSE <<>>

\* The memory words of a loaded program: its text and the data words.
TextAddrs == {to_word_address(TEXT_START_32) + k : k \in 0..(MaxProg - 1)}
RunMemAddrs == TextAddrs \cup MemAddrs

\* The instructions of the programs: a noop, writes to a0 and to the syscall number
\* register, an ecall, and jumps below the text, past the text and to the third word.
ProgInsts ==
    {Inst("noop", "", "", "", "", 0, 0, 0),
     Inst("reg_write", "", "a0", "", "", 0, 0, 3),
     Inst("reg_write", "", "a7", "", "", 0, 0, 1),
     Inst("ecall", "", "", "", "", 0, 0, 0),
     Inst("pc_update", "", "", "", "", TEXT_START_32 - 4, 0, 0),
     Inst("pc_update", "", "", "", "", TEXT_START_32 + 64, 0, 0),
     Inst("pc_update", "", "", "", "", TEXT_START_32 + 8, 0, 0)}

\* Programs of at most MaxProg instructions whose jumps go forward, so that every run ends.
Programs ==
    {p \in UNION {[1..n -> ProgInsts] : n \in 0..MaxProg} :
        \A k \in 1..Len(p) :
            (p[k].op = "pc_update" /\ p[k].target >= TEXT_START_32)
            => p[k].target > TEXT_START_32 + 4 * (k - 1)}

\* The arguments of RiscVProgram::new: the instructions and the sections' bytes.
ProgArgs ==
    {[insts |-> p, data |-> d, rodata |-> ro] :
        p \in Programs, d \in {<<>>, <<17>>, <<17, 34>>}, ro \in {<<>>, <<51>>}}

\* The state after the first statement of RiscVProgram::new, ProgramState::new().
InitRun ==
    /\ user_state = ProgramState_new(RunMemAddrs).user_state
    /\ priv_state = ProgramState_new(RunMemAddrs).priv_state
    /\ phase = "idle"
    /\ cur = NoCur
    /\ undo = <<>>
    /\ last = NoLast
    /\ steps = 0
    /\ term_cause = NoCause
    /\ exit_status = -1
    /\ args \in ProgArgs
    /\ insts = <<>>
    /\ run_status = "new"
    /\ run_ret = <<>>
    /\ TermIdle /\ EncIdle
    /\ origin = <<>>
    /\ LibIdle

\* The rest of RiscVProgram::new.
Construct ==
    /\ run_status = "new"
    /\ LET p == RiscVProgram_new(args.insts, [data |-> args.data, rodata |-> args.rodata], PS)
       IN  /\ insts' = p.insts
           /\ user_state' = p.state.user_state
           /\ priv_state' = p.state.priv_state
    /\ run_status' = "loaded"
    /\ UNCHANGED <<phase, cur, undo, last, steps, term_cause, exit_status, args, run_ret,
                   termVars, encVars>>

\* RiscVProgram::run, one turn of the loop: the instruction at the index is applied.
RunStep ==
    /\ run_status = "loaded"
    /\ LET inst == Vec_get(insts, RunIndex(user_state.pc, TEXT_START_32))
       IN  /\ inst # <<>>
           /\ ProgramState_apply_inst(inst[1])

\* RiscVProgram::run, the end of the loop: there is no instruction at the index and the
\* value of a0 is returned.
RunReturn ==
    /\ run_status = "loaded"
    /\ phase = "idle"
    /\ Vec_get(insts, RunIndex(user_state.pc, TEXT_START_32)) = <<>>
    /\ run_status' = "returned"
    /\ run_ret' = <<RegFile_read(user_state.regfile, "a0")>>
    /\ UNCHANGED <<user_state, priv_state, phase, cur, undo, last, steps, term_cause,
                   exit_status, args, insts, termVars, encVars>>

NextRun ==
    \/ Construct
    \/ RunStep
    \/ TrapResolve
    \/ TrapPrivApply
    \/ TrapUserApply
    \/ RunReturn

SpecRun == InitRun /\ [][NextRun]_vars

\* new and run are synchronous calls: a constructor or a loop that can take a step takes it.
\* The programs are loaded without data.
InitRunFair == InitRun /\ args.data = <<>> /\ args.rodata = <<>>

SpecRunFair == InitRunFair /\ [][NextRun]_vars /\ WF_vars(NextRun)

(***************************************************************************)
(* The privileged state of priv_s.rs and the loop that applies diffs to it *)
(* until a TermCause is returned.                                          *)
(***************************************************************************)
\* PrivState::new
PrivState_new(heap_start, page_table) ==
    [brk |-> heap_start, heap_start |-> heap_start, page_table |-> page_table,
     stdout |-> <<>>, stderr |-> <<>>]

\* The variants of PrivDiff; a field a variant does not have is 0, <<>> or NoCause.
PrivDiff_Terminate(cause) ==
    [tag |-> "Terminate", cause |-> cause, fd |-> 0, data |-> <<>>, update |-> 0,
     old |-> 0, new |-> 0]
PrivDiff_FileWrite(fd, data) ==
    [tag |-> "FileWrite", cause |-> NoCause, fd |-> fd, data |-> data, update |-> 0,
     old |-> 0, new |-> 0]
PrivDiff_PtUpdate(update) ==
    [tag |-> "PtUpdate", cause |-> NoCause, fd |-> 0, data |-> <<>>, update |-> update,
     old |-> 0, new |-> 0]
PrivDiff_BrkUpdate(old, new) ==
    [tag |-> "BrkUpdate", cause |-> NoCause, fd |-> 0, data |-> <<>>, update |-> 0,
     old |-> old, new |-> new]

\* PageTable::apply_update: the page of the update becomes mapped.
PageTable_apply_update(page_table, update) == page_table \cup {update}

\* PrivState::apply_diff that writes to the captured stdout for every other descriptor.
PrivState_apply_diff_anyfd(priv, diff) ==
    CASE diff.tag = "FileWrite" ->
            CASE diff.fd = 2 ->
                    [panic |-> FALSE, err |-> <<>>,
                     priv |-> [priv EXCEPT !.stderr = Vec_extend(@, VecOf(diff.data))]]
              [] OTHER ->
                    [panic |-> FALSE, err |-> <<>>,
                     priv |-> [priv EXCEPT !.stdout = Vec_extend(@, VecOf(diff.data))]]
      [] diff.tag = "Terminate" -> [panic |-> FALSE, err |-> <<diff.cause>>, priv |-> priv]
      [] diff.tag = "PtUpdate" ->
            [panic |-> FALSE, err |-> <<>>,
             priv |-> [priv EXCEPT !.page_table = PageTable_apply_update(@, diff.update)]]
      [] OTHER -> [panic |-> FALSE, err |-> <<>>, priv |-> [priv EXCEPT !.brk = diff.new]]

\* PrivState::apply_diff: Ok(()) with the new state, Err(cause), or a panic.
PrivState_apply_diff(priv, diff) ==
    CASE diff.tag = "FileWrite" ->
            CASE diff.fd = 1 ->
                    [panic |-> FALSE, err |-> <<>>,
                     priv |-> [priv EXCEPT !.stdout = Vec_extend(@, VecOf(diff.data))]]
              [] diff.fd = 2 ->
                    [panic |-> FALSE, err |-> <<>>,
                     priv |-> [priv EXCEPT !.stderr = Vec_extend(@, VecOf(diff.data))]]
              [] OTHER -> [panic |-> TRUE, err |-> <<>>, priv |-> priv]
      [] diff.tag = "Terminate" -> [panic |-> FALSE, err |-> <<diff.cause>>, priv |-> priv]
      [] diff.tag = "PtUpdate" ->
            [panic |-> FALSE, err |-> <<>>,
             priv |-> [priv EXCEPT !.page_table = PageTable_apply_update(@, diff.update)]]
      [] OTHER -> [panic |-> FALSE, err |-> <<>>, priv |-> [priv EXCEPT !.brk = diff.new]]

\* The privileged diffs a trap handler hands to the loop in a state; the last one is a
\* break-pointer update whose old field is the start of the heap.
PrivDiffs(priv) ==
    {PrivDiff_Terminate(c) :
        c \in {[tag |-> "Exit", code |-> 0], [tag |-> "Exit", code |-> 3],
               [tag |-> "SegFault", code |-> 0], [tag |-> "BusError", code |-> 0]}}
    \cup {PrivDiff_FileWrite(fd, <<72>>) : fd \in {1, 2, 3}}
    \cup {PrivDiff_PtUpdate(1), PrivDiff_BrkUpdate(priv.brk, priv.brk + 4),
          PrivDiff_BrkUpdate(priv.heap_start, priv.brk + 4)}

\* The heap starts after the two data words.
HeapStart == DATA_START_32 + 8

InitTerm ==
    /\ user_state \in InitUserStates
    /\ user_state.regfile["a7"] = 1 /\ user_state.regfile["a0"] = 1
    /\ user_state.regfile["a1"] = DATA_START_32 /\ user_state.regfile["a2"] = 0
    /\ priv_state = PrivProgState_new
    /\ phase = "idle"
    /\ cur = NoCur
    /\ undo = <<>>
    /\ last = NoLast
    /\ steps = 0
    /\ term_cause = NoCause
    /\ exit_status = -1
    /\ RunIdle /\ EncIdle
    /\ priv_s = PrivState_new(HeapStart, {})
    /\ driver = [status |-> "running", cause |-> NoCause, terminate_applied |-> FALSE]
    /\ origin = <<>>
    /\ LibIdle

\* The owner of the state evaluates a non-trapping instruction and applies its UserDiff
\* with UserProgState::apply_diff.  Nothing in the state records an earlier Err(cause).
DriverApplyUser(inst) ==
    /\ driver.status \in {"running", "terminated"}
    /\ steps < MaxSteps
    /\ LET r == Inst_apply(inst, PS)
       IN  /\ r.tag = "UserStateChange"
           /\ user_state' = UserProgState_apply_diff(user_state, r.diff[1])
           /\ last' = [NoLast EXCEPT !.op = "apply_user", !.inst = <<inst>>, !.before = <<PS>>]
    /\ steps' = steps + 1
    /\ UNCHANGED <<priv_state, phase, cur, undo, term_cause, exit_status, runVars,
                   termVars, encVars>>

\* The owner of the state applies the privileged diff of a trapping instruction with
\* PrivState::apply_diff; driver.status is what the call gave: Ok ("running"),
\* Err(cause) ("terminated", with the cause) or a panic ("aborted").  PrivState keeps no
\* record of a cause, and the call is open to the next diff whatever the last one gave.
DriverApplyPriv(diff) ==
    /\ driver.status \in {"running", "terminated"}
    /\ steps < MaxSteps
    /\ LET r == PrivState_apply_diff(priv_s, diff)
       IN  /\ priv_s' = r.priv
           /\ driver' = [status |-> IF r.panic THEN "aborted"
                                    ELSE IF r.err # <<>> THEN "terminated" ELSE "running",
                         cause |-> IF r.err # <<>> THEN r.err[1] ELSE NoCause,
                         terminate_applied |-> driver.terminate_applied \/ diff.tag = "Terminate"]
    /\ last' = [NoLast EXCEPT !.op = "apply_priv", !.entry = <<diff>>,
                              !.before = <<[user_state |-> user_state,
                                            priv_state |-> priv_state, priv_s |-> priv_s]>>]
    /\ steps' = steps + 1
    /\ UNCHANGED <<user_state, priv_state, phase, cur, undo, term_cause, exit_status,
                   runVars, encVars>>

\* The cause of the last Err(cause) is handed to TermCause::handle_exit.
DriverExit ==
    /\ driver.status = "terminated"
    /\ LET r == TermCause_handle_exit(driver.cause,
                                      [user_state |-> user_state, priv_state |-> priv_s])
       IN  /\ exit_status' = r.status
           /\ priv_s' = r.program_state.priv_state
    /\ driver' = [driver EXCEPT !.status = "exited"]
    /\ term_cause' = driver.cause
    /\ UNCHANGED <<user_state, priv_state, phase, cur, undo, last, steps, runVars, encVars>>

NextTerm ==
    \/ \E inst \in InstSet : DriverApplyUser(inst)
    \/ \E diff \in PrivDiffs(priv_s) : DriverApplyPriv(diff)
    \/ DriverExit

SpecTerm == InitTerm /\ [][NextTerm]_vars

(***************************************************************************)
(* Reverting the diff that was applied last to the state of priv_s.rs.     *)
(***************************************************************************)
\* PageTable::revert_update: the page of the update is unmapped again.
PageTable_revert_update(page_table, update) == page_table \ {update}

\* PrivState::revert_diff that leaves the break pointer where it is.
PrivState_revert_diff_keepbrk(priv, diff) ==
    CASE diff.tag = "FileWrite" -> [panic |-> FALSE, priv |-> priv]
      [] diff.tag = "PtUpdate" ->
            [panic |-> FALSE,
             priv |-> [priv EXCEPT !.page_table = PageTable_revert_update(@, diff.update)]]
      [] diff.tag = "BrkUpdate" -> [panic |-> FALSE, priv |-> priv]
      [] OTHER -> [panic |-> TRUE, priv |-> priv]

\* PrivState::revert_diff: the reverted state, or a panic (unimplemented!()).
PrivState_revert_diff(priv, diff) ==
    CASE diff.tag = "FileWrite" -> [panic |-> FALSE, priv |-> priv]
      [] diff.tag = "PtUpdate" ->
            [panic |-> FALSE,
             priv |-> [priv EXCEPT !.page_table = PageTable_revert_update(@, diff.update)]]
      [] diff.tag = "BrkUpdate" -> [panic |-> FALSE, priv |-> [priv EXCEPT !.brk = diff.old]]
      [] OTHER -> [panic |-> TRUE, priv |-> priv]

\* The owner of the state reverts the diff it applied last: a UserDiff with
\* UserProgState::revert_diff, a PrivDiff with PrivState::revert_diff.  After the revert
\* of a PrivDiff last.before is still the state before the diff was applied and
\* last.result the PrivState the revert was made on.
DriverRevert ==
    /\ driver.status \in {"running", "terminated"}
    /\ last.op \in {"apply_user", "apply_priv"}
    /\ IF last.op = "apply_user"
       THEN /\ user_state' = UserProgState_revert_diff(
                                 user_state, Inst_apply(last.inst[1], last.before[1]).diff[1])
            /\ last' = [NoLast EXCEPT !.op = "revert_user", !.inst = last.inst,
                                      !.before = <<PS>>]
            /\ UNCHANGED <<priv_s, driver>>
       ELSE LET r == PrivState_revert_diff(priv_s, last.entry[1])
            IN  /\ priv_s' = r.priv
                /\ driver' = [driver EXCEPT !.status = IF r.panic THEN "revert_aborted"
                                                       ELSE "running"]
                /\ last' = [NoLast EXCEPT !.op = "revert_priv", !.entry = last.entry,
                                          !.before = last.before, !.result = <<priv_s>>]
                /\ UNCHANGED user_state
    /\ UNCHANGED <<priv_state, phase, cur, undo, steps, term_cause, exit_status, runVars,
                   encVars>>

NextRev ==
    \/ \E inst \in InstSet : DriverApplyUser(inst)
    \/ \E diff \in PrivDiffs(priv_s) : DriverApplyPriv(diff)
    \/ DriverRevert

SpecRev == InitTerm /\ [][NextRev]_vars

(***************************************************************************)
(* One instruction evaluated against two program states.                   *)
(***************************************************************************)
\* User states that differ from a state in one register, one memory word or the pc.
Variants(s) ==
    {[s EXCEPT !.regfile[r] = v] : r \in Regs \ {"zero"}, v \in {0, 7}}
    \cup {[s EXCEPT !.memory[a] = 0] : a \in MemAddrs}
    \cup {[s EXCEPT !.pc = s.pc + 4]}

\* The second program state: the first one or a variant of it, with the same captured
\* stdout or another one.
OtherStates(state) ==
    {[user_state |-> t, priv_state |-> p] :
        t \in Variants(state.user_state) \cup {state.user_state},
        p \in {state.priv_state, [state.priv_state EXCEPT !.stdout = VecOf(<<72>>)]}}

InitDet ==
    /\ user_state \in InitUserStates
    /\ priv_state = PrivProgState_new
    /\ phase = "idle"
    /\ cur = NoCur
    /\ undo = <<>>
    /\ last = NoLast
    /\ steps = 0
    /\ term_cause = NoCause
    /\ exit_status = -1
    /\ RunIdle /\ TermIdle
    /\ cmp = NoCmp
    /\ \E o \in OtherStates(PS) : det = [NoDet EXCEPT !.other = <<o>>]
    /\ origin = <<>>
    /\ LibIdle

\* ConcreteInst::apply of one instruction against both states.
Evaluate(inst) ==
    /\ det.inst = <<>>
    /\ det' = [det EXCEPT !.inst = <<inst>>,
                          !.result = <<Inst_apply(inst, PS)>>,
                          !.other_result = <<Inst_apply(inst, det.other[1])>>,
                          !.before = <<PS>>,
                          !.other_before = det.other]
    /\ UNCHANGED <<user_state, priv_state, phase, cur, undo, last, steps, term_cause,
                   exit_status, runVars, termVars, cmp, origin, libVars>>

\* UserProgState::apply_diff of each result to the state it was evaluated against.
ApplyResults ==
    /\ det.inst # <<>>
    /\ steps = 0
    /\ det.result[1].tag = "UserStateChange"
    /\ det.other_result[1].tag = "UserStateChange"
    /\ user_state' = UserProgState_apply_diff(user_state, det.result[1].diff[1])
    /\ det' = [det EXCEPT !.other[1].user_state =
                              UserProgState_apply_diff(@, det.other_result[1].diff[1])]
    /\ steps' = 1
    /\ UNCHANGED <<priv_state, phase, cur, undo, last, term_cause, exit_status, runVars,
                   termVars, cmp, origin, libVars>>

NextDet ==
    \/ \E inst \in InstSet : Evaluate(inst)
    \/ ApplyResults

SpecDet == InitDet /\ [][NextDet]_vars

(***************************************************************************)
(* The bitmap of bitmap.rs.  A u64 backing word is the set of the          *)
(* positions of its 1 bits, position 0 being the least significant bit.    *)
(***************************************************************************)
\* The variables of the simulation core, which the library components leave alone.
coreVars == <<user_state, priv_state, phase, cur, undo, last, steps, term_cause,
              exit_status, runVars, termVars, cmp, det, origin>>

CoreIdle ==
    /\ user_state = UserProgState_new({})
    /\ priv_state = PrivProgState_new
    /\ phase = "idle"
    /\ cur = NoCur
    /\ undo = <<>>
    /\ last = NoLast
    /\ steps = 0
    /\ term_cause = NoCause
    /\ exit_status = -1
    /\ RunIdle /\ TermIdle /\ EncIdle
    /\ origin = <<>>

\* u64 arithmetic: 1, <<, >>, ^ and &.
U64_one == {0}
U64_shl(n, k) == {b + k : b \in n} \cap (0 .. U64_BITS - 1)
U64_shr(n, k) == {b - k : b \in {x \in n : x >= k}}
U64_xor(a, b) == (a \ b) \cup (b \ a)
U64_and(a, b) == a \cap b

\* Bitmap::new: bit_cnt / 64 words of 0, one more if bit_cnt is not a multiple of 64.
Bitmap_new(bit_cnt) ==
    LET round_up == bit_cnt % U64_BITS # 0
    IN  [bit_cnt |-> bit_cnt,
         bits |-> [k \in 1 .. (bit_cnt \div U64_BITS + (IF round_up THEN 1 ELSE 0)) |-> {}]]

\* The bounds check against the allocated backing words instead of bit_cnt.
Bitmap_bounds_check_capacity(self, idx) == idx >= U64_BITS * Len(self.bits)

\* Bitmap::bounds_check: TRUE when the check panics.
Bitmap_bounds_check(self, idx) == idx >= self.bit_cnt

\* Bitmap::read: the bit, or a panic.  Vec indices start at 0, sequence indices at 1.
Bitmap_read(self, idx) ==
    IF Bitmap_bounds_check(self, idx) \/ idx \div U64_BITS + 1 > Len(self.bits)
    THEN [panic |-> TRUE, val |-> FALSE]
    ELSE LET n == self.bits[idx \div U64_BITS + 1]
             bit_idx == idx % U64_BITS
         IN  [panic |-> FALSE, val |-> U64_and(U64_shr(n, bit_idx), U64_one) # {}]

\* Bitmap::flip with the mask always applied to the first backing word.
Bitmap_flip_word0(self, idx) ==
    IF Bitmap_bounds_check(self, idx) \/ idx \div U64_BITS + 1 > Len(self.bits)
    THEN [panic |-> TRUE, self |-> self]
    ELSE LET bit_idx == idx % U64_BITS
             mask == U64_shl(U64_one, bit_idx)
         IN  [panic |-> FALSE,
              self |-> [self EXCEPT !.bits[1] = U64_xor(self.bits[1], mask)]]

\* Bitmap::flip: the bitmap after the flip, or a panic that leaves it as it was.
Bitmap_flip(self, idx) ==
    IF Bitmap_bounds_check(self, idx) \/ idx \div U64_BITS + 1 > Len(self.bits)
    THEN [panic |-> TRUE, self |-> self]
    ELSE LET bit_idx == idx % U64_BITS
             mask == U64_shl(U64_one, bit_idx)
             k == idx \div U64_BITS + 1
         IN  [panic |-> FALSE,
              self |-> [self EXCEPT !.bits[k] = U64_xor(self.bits[k], mask)]]

\* The sizes of the bitmaps and the indices of the calls: below, at and above a word
\* boundary, and at and above the size.
BitCnts == {0, 1, 64, 65, 128, 130}
BitIdxs == {0, 1, 63, 64, 65, 127, 128, 130}

\* bm.self is the Bitmap; hist holds, for every flip that returned, its index and the
\* backing words before it; op, idx, ret and panic describe the last call and before is
\* the Bitmap it was made on.
InitBitmap ==
    /\ CoreIdle
    /\ asm = NoAsm
    /\ \E bit_cnt \in BitCnts :
          bm = [self |-> Bitmap_new(bit_cnt), hist |-> <<>>, op |-> "new", idx |-> 0,
                ret |-> FALSE, panic |-> FALSE, before |-> Bitmap_new(bit_cnt)]

BitmapRead(idx) ==
    /\ ~bm.panic
    /\ LET r == Bitmap_read(bm.self, idx)
       IN  bm' = [bm EXCEPT !.op = "read", !.idx = idx, !.ret = r.val, !.panic = r.panic,
                            !.before = bm.self]
    /\ UNCHANGED <<coreVars, asm>>

BitmapFlip(idx) ==
    /\ ~bm.panic
    /\ Len(bm.hist) < MaxFlips
    /\ LET r == Bitmap_flip(bm.self, idx)
       IN  bm' = [bm EXCEPT !.self = r.self,
                            !.hist = IF r.panic THEN @
                                     ELSE Append(@, [idx |-> idx, bits |-> bm.self.bits]),
                            !.op = "flip", !.idx = idx, !.ret = FALSE, !.panic = r.panic,
                            !.before = bm.self]
    /\ UNCHANGED <<coreVars, asm>>

NextBitmap ==
    \/ \E idx \in BitIdxs : BitmapRead(idx)
    \/ \E idx \in BitIdxs : BitmapFlip(idx)

SpecBitmap == InitBitmap /\ [][NextBitmap]_vars

(***************************************************************************)
(* The assembler's parser (assembler/parser.rs).  A token is a record of   *)
(* its TokenType (type, name, number) and its location, its position in    *)
(* the line.  An i32 is handled bit by bit where the code uses << and &: its   *)
(* two's-complement form is the set of the positions of its 1 bits.        *)
(***************************************************************************)
\* name is the string of a Name, LabelDef or Directive token and num the value of an
\* Immediate token; a token without one has "" or 0.
Token(type, name, num, location) ==
    [type |-> type, name |-> name, num |-> num, location |-> location]

\* The outcome of a parsing function: Ok(val) (err = "none") or Err(ParseError).
ParseOk(val) == [err |-> "none", val |-> val]
ParseErr(kind) == [err |-> kind, val |-> <<>>]

I32_bits(val) ==
    IF val >= 0
    THEN {b \in 0 .. I32_BITS - 2 : (val \div 2^b) % 2 = 1}
    ELSE {b \in 0 .. I32_BITS - 2 : ((val - I32_MIN) \div 2^b) % 2 = 1} \cup {I32_BITS - 1}
I32_shl(bits, k) == {b + k : b \in bits} \cap (0 .. I32_BITS - 1)
I32_and(a, b) == a \cap b

\* try_parse_imm whose mask never makes room for the sign bit.
InstParser_try_parse_imm_nosign(n, token) ==
    IF token.type = "Immediate"
    THEN LET val == token.num
             mask == IF n = I32_BITS THEN {} ELSE I32_shl(I32_bits(-1), n)
             mask_result == I32_and(I32_bits(val), mask)
         IN  IF mask_result # {} /\ mask_result # mask
             THEN ParseErr("imm_too_big")
             ELSE ParseOk(val)
    ELSE ParseErr("unexpected_type")

\* InstParser::try_parse_imm
InstParser_try_parse_imm(n, token) ==
    IF token.type = "Immediate"
    THEN LET val == token.num
             mask == IF n = I32_BITS
                     THEN {}
                     ELSE I32_shl(I32_bits(-1), IF val < 0 THEN n - 1 ELSE n)
             mask_result == I32_and(I32_bits(val), mask)
         IN  IF mask_result # {} /\ mask_result # mask
             THEN ParseErr("imm_too_big")
             ELSE ParseOk(val)
    ELSE ParseErr("unexpected_type")

\* The widths try_parse_imm is called with (Arith and Jalr, B, Jal and U, Li) and the
\* immediates: the limits of each width, the limits of i32 and the values of the tests.
ImmWidths == {12, 13, 20, 32}
ImmVals ==
    {0, 1, -1, 4, -4, 61440, -559038737, I32_MAX, I32_MIN}
    \cup UNION {{2^k - 1, 2^k, 2^k + 1, -(2^k) + 1, -(2^k), -(2^k) - 1} :
                    k \in {n - 1 : n \in ImmWidths \ {I32_BITS}}
                          \cup (ImmWidths \ {I32_BITS}) \cup {I32_BITS - 2}}

InitImm ==
    /\ CoreIdle
    /\ bm = NoBm
    /\ \E n \in ImmWidths, val \in ImmVals :
          asm = [op |-> "imm", n |-> n, token |-> Token("Immediate", "", val, 3),
                 result |-> <<>>]

\* try_parse_imm(n, token) is called.
ParseImm ==
    /\ asm.op = "imm"
    /\ asm.result = <<>>
    /\ asm' = [asm EXCEPT !.result = <<InstParser_try_parse_imm(asm.n, asm.token)>>]
    /\ UNCHANGED <<coreVars, bm>>

NextImm == ParseImm

SpecImm == InitImm /\ [][NextImm]_vars

(***************************************************************************)
(* Argument lists and lines.  A token iterator is the sequence of the      *)
(* tokens it has not yet yielded.                                          *)
(***************************************************************************)
IsArg(tok) == tok.type \in {"Name", "Immediate"}

\* InstParser::check_no_more_args: TRUE for Ok(()), FALSE for Err(too_many_args).
InstParser_check_no_more_args(iter) == iter = <<>> \/ Head(iter).type = "Comment"

RECURSIVE InstParser_consume_commasep_loop(_, _, _)
\* The for loop of consume_commasep_args with `remaining` rounds to go; the round with
\* left = remaining - 1 skips one comma after its argument unless left = 0.
InstParser_consume_commasep_loop(iter, remaining, found) ==
    IF remaining = 0 THEN [err |-> "none", val |-> found, iter |-> iter]
    ELSE IF iter = <<>> THEN [err |-> "wrong_argc", val |-> <<>>, iter |-> iter]
    ELSE LET tok == Head(iter)
             rest == Tail(iter)
             left == remaining - 1
         IN  IF IsArg(tok)
             THEN InstParser_consume_commasep_loop(
                      IF left > 0 /\ rest # <<>> /\ Head(rest).type = "Comma"
                      THEN Tail(rest) ELSE rest,
                      left, Append(found, tok))
             ELSE [err |-> "bad_arg", val |-> <<>>, iter |-> rest]

\* consume_commasep_args that also skips a comma after the last argument.
InstParser_consume_commasep_args_trailing(iter, n) ==
    LET r == InstParser_consume_commasep_loop(iter, n, <<>>)
        rest == IF r.iter # <<>> /\ Head(r.iter).type = "Comma" THEN Tail(r.iter) ELSE r.iter
    IN  IF r.err # "none" THEN ParseErr(r.err)
        ELSE IF InstParser_check_no_more_args(rest) THEN ParseOk(r.val)
        ELSE ParseErr("too_many_args")

\* InstParser::consume_commasep_args
InstParser_consume_commasep_args(iter, n) ==
    LET r == InstParser_consume_commasep_loop(iter, n, <<>>)
    IN  IF r.err # "none" THEN ParseErr(r.err)
        ELSE IF InstParser_check_no_more_args(r.iter) THEN ParseOk(r.val)
        ELSE ParseErr("too_many_args")

RECURSIVE LineParser_consume_commasep_args(_, _)
\* LineParser::consume_commasep_args of the older parser.rs.
LineParser_consume_commasep_args(iter, n) ==
    IF n = 0
    THEN IF iter # <<>> THEN ParseErr("unexpected") ELSE ParseOk(<<>>)
    ELSE IF iter = <<>> THEN ParseErr("not_enough_args")
    ELSE LET tok == Head(iter)
             rest == Tail(iter)
         IN  IF IsArg(tok)
             THEN LET r == LineParser_consume_commasep_args(
                               IF n > 1 /\ rest # <<>> /\ Head(rest).type = "Comma"
                               THEN Tail(rest) ELSE rest,
                               n - 1)
                  IN  IF r.err = "none" THEN ParseOk(<<tok>> \o r.val) ELSE r
             ELSE ParseErr("bad_arg")

RECURSIVE InstParser_consume_unbounded_loop(_, _, _)
\* The for loop of consume_unbounded_commasep_args.
InstParser_consume_unbounded_loop(iter, toks, was_comma) ==
    IF iter = <<>> THEN ParseOk(toks)
    ELSE LET tok == Head(iter)
         IN  CASE IsArg(tok) -> InstParser_consume_unbounded_loop(Tail(iter), Append(toks, tok), FALSE)
               [] tok.type = "Comma" ->
                     IF was_comma THEN ParseErr("bad_arg")
                     ELSE InstParser_consume_unbounded_loop(Tail(iter), toks, TRUE)
               [] tok.type = "Comment" -> ParseOk(toks)
               [] OTHER -> ParseErr("bad_arg")

\* InstParser::consume_unbounded_commasep_args
InstParser_consume_unbounded_commasep_args(iter) ==
    InstParser_consume_unbounded_loop(iter, <<>>, TRUE)

\* IRegister::REG_ARRAY: the registers x0 .. x31 under the names they print as.
REG_ARRAY ==
    <<"zero", "ra", "sp", "gp", "tp", "t0", "t1", "t2", "s0", "s1",
      "a0", "a1", "a2", "a3", "a4", "a5", "a6", "a7",
      "s2", "s3", "s4", "s5", "s6", "s7", "s8", "s9", "s10", "s11",
      "t3", "t4", "t5", "t6">>

\* format!("x{}", i) for i in 0 .. 31.
XNames ==
    <<"x0", "x1", "x2", "x3", "x4", "x5", "x6", "x7", "x8", "x9",
      "x10", "x11", "x12", "x13", "x14", "x15", "x16", "x17", "x18", "x19",
      "x20", "x21", "x22", "x23", "x24", "x25", "x26", "x27", "x28", "x29",
      "x30", "x31">>

\* The keys of REG_EXPANSION_TABLE: the 32 names of REG_ARRAY, x0 .. x31 and fp.
RegNames ==
    {REG_ARRAY[i] : i \in 1 .. Len(REG_ARRAY)} \cup {XNames[i] : i \in 1 .. Len(XNames)}
        \cup {"fp"}

\* REG_EXPANSION_TABLE.get(name) for a key: the register, under its name in REG_ARRAY;
\* IRegister::FP is s0.
REG_EXPANSION_TABLE(name) ==
    CASE name = "fp" -> "s0"
      [] \E i \in 1 .. Len(XNames) : XNames[i] = name ->
            REG_ARRAY[CHOOSE i \in 1 .. Len(XNames) : XNames[i] = name]
      [] OTHER -> name

\* The ParseType of a name of INST_EXPANSION_TABLE; "" stands for a name that is not in
\* the table.
ParseTypeOf(name) ==
    CASE name \in {"add", "and"} -> "R"
      [] name \in {"addi", "andi"} -> "Arith"
      [] name \in {"auipc", "lui"} -> "U"
      [] name \in {"beq", "bge", "bgeu", "blt", "bltu", "bne"} -> "B"
      [] name = "ecall" -> "Env"
      [] name = "jal" -> "Jal"
      [] name = "jalr" -> "Jalr"
      [] name \in {"lb", "lbu", "lh", "lhu", "lw"} -> "MemL"
      [] name \in {"sb", "sh", "sw"} -> "MemS"
      [] name = "li" -> "Li"
      [] name = "mv" -> "RegReg"
      [] name \in {"nop", "ret"} -> "NoArgs"
      [] name = "j" -> "LikeJ"
      [] name = "jr" -> "OneReg"
      [] OTHER -> ""

\* A PartialInst: the constructor that was called and its arguments, the label attached
\* to the instruction and the label it still needs, each <<>> for None.
PartialInst_new_complete(name, inst_args) ==
    [name |-> name, args |-> inst_args, label |-> <<>>, needed_label |-> <<>>]
PartialInst_new_needs_label(name, inst_args, tgt_label) ==
    [name |-> name, args |-> inst_args, label |-> <<>>, needed_label |-> <<tgt_label>>]
PartialInst_with_label(inst, label) == [inst EXCEPT !.label = <<label>>]

\* InstParser::try_parse_reg
InstParser_try_parse_reg(token) ==
    IF token.type = "Name" /\ token.name \in RegNames
    THEN ParseOk(REG_EXPANSION_TABLE(token.name))
    ELSE ParseErr("unexpected_type")

\* InstParser::try_parse_imm_or_label_ref without the label case.
InstParser_try_parse_imm_or_label_ref_immonly(max_imm_len, token) ==
    LET r == InstParser_try_parse_imm(max_imm_len, token)
    IN  IF r.err = "none" THEN ParseOk([kind |-> "Imm", v |-> r.val]) ELSE r

\* InstParser::try_parse_imm_or_label_ref
InstParser_try_parse_imm_or_label_ref(max_imm_len, token) ==
    IF token.type = "Name"
    THEN ParseOk([kind |-> "Label", v |-> token.name])
    ELSE LET r == InstParser_try_parse_imm(max_imm_len, token)
         IN  IF r.err = "none" THEN ParseOk([kind |-> "Imm", v |-> r.val]) ELSE r

\* The results of a row of `?` calls: the first error, or the values.
TryAll(rs) ==
    IF \E i \in 1 .. Len(rs) : rs[i].err # "none"
    THEN rs[CHOOSE i \in 1 .. Len(rs) :
                /\ rs[i].err # "none"
                /\ \A j \in 1 .. i - 1 : rs[j].err = "none"]
    ELSE ParseOk([i \in 1 .. Len(rs) |-> rs[i].val])

\* An instruction whose last argument is an immediate or a label reference.
ImmOrLabelInst(name, regs, last_arg) ==
    IF last_arg.kind = "Imm"
    THEN ParseOk(<<PartialInst_new_complete(name, Append(regs, last_arg.v))>>)
    ELSE ParseOk(<<PartialInst_new_needs_label(name, regs, last_arg.v)>>)

\* InstParser::consume_mem_args: `reg, imm, reg` or `reg, imm(reg)`; the value is
\* <<first_reg, second_reg, imm>>.
InstParser_consume_mem_args(iter) ==
    IF iter = <<>> THEN ParseErr("wrong_argc")
    ELSE
    LET first_reg == InstParser_try_parse_reg(Head(iter))
        it1 == Tail(iter)
    IN  IF first_reg.err # "none" THEN first_reg
        ELSE IF it1 = <<>> THEN ParseErr("wrong_argc")
        ELSE
        LET it2 == IF Head(it1).type = "Comma" THEN Tail(it1) ELSE it1
        IN  IF it2 = <<>> THEN ParseErr("wrong_argc")
            ELSE
            LET imm == InstParser_try_parse_imm(12, Head(it2))
                it3 == Tail(it2)
            IN  IF imm.err # "none" THEN imm
                ELSE IF it3 = <<>> THEN ParseErr("wrong_argc")
                ELSE
                LET is_lparen == Head(it3).type = "LParen"
                    it4 == IF is_lparen THEN Tail(it3) ELSE it3
                IN  IF it4 = <<>> THEN ParseErr("wrong_argc")
                    ELSE
                    LET second_reg == InstParser_try_parse_reg(Head(it4))
                        it5 == Tail(it4)
                    IN  IF second_reg.err # "none" THEN second_reg
                        ELSE IF is_lparen /\ it5 = <<>> THEN ParseErr("wrong_argc")
                        ELSE IF is_lparen /\ Head(it5).type # "RParen"
                        THEN ParseErr("unclosed_paren")
                        ELSE IF InstParser_check_no_more_args(IF is_lparen THEN Tail(it5) ELSE it5)
                        THEN ParseOk(<<first_reg.val, second_reg.val, imm.val>>)
                        ELSE ParseErr("too_many_args")

\* Li::expand: the instructions that load imm into rd, as one opaque instruction.
Li_expand(rd, imm) == <<PartialInst_new_complete("li", <<rd, imm>>)>>

\* InstParser::try_expand_found_inst
InstParser_try_expand_found_inst(parse_type, iter, inst_name) ==
    CASE parse_type \in {"R", "Arith", "B"} ->
            LET c == InstParser_consume_commasep_args(iter, 3)
            IN  IF c.err # "none" THEN c
                ELSE LET a == TryAll(<<InstParser_try_parse_reg(c.val[1]),
                                       InstParser_try_parse_reg(c.val[2]),
                                       CASE parse_type = "R" -> InstParser_try_parse_reg(c.val[3])
                                         [] parse_type = "Arith" ->
                                               InstParser_try_parse_imm(12, c.val[3])
                                         [] OTHER ->
                                               InstParser_try_parse_imm_or_label_ref(13, c.val[3])>>)
                     IN  IF a.err # "none" THEN a
                         ELSE IF parse_type # "B"
                         THEN ParseOk(<<PartialInst_new_complete(inst_name, a.val)>>)
                         ELSE IF a.val[3].kind = "Imm" /\ a.val[3].v % 2 = 1
                         THEN ParseErr("generic")
                         ELSE ImmOrLabelInst(inst_name, <<a.val[1], a.val[2]>>, a.val[3])
      [] parse_type = "MemL" ->
            LET a == InstParser_consume_mem_args(iter)
            IN  IF a.err # "none" THEN a
                ELSE ParseOk(<<PartialInst_new_complete(inst_name,
                                                        <<a.val[1], a.val[2], a.val[3]>>)>>)
      [] parse_type = "MemS" ->
            LET a == InstParser_consume_mem_args(iter)
            IN  IF a.err # "none" THEN a
                ELSE ParseOk(<<PartialInst_new_complete(inst_name,
                                                        <<a.val[2], a.val[1], a.val[3]>>)>>)
      [] parse_type = "Li" ->
            LET c == InstParser_consume_commasep_args(iter, 2)
            IN  IF c.err # "none" THEN c
                ELSE LET a == TryAll(<<InstParser_try_parse_reg(c.val[1]),
                                       InstParser_try_parse_imm(32, c.val[2])>>)
                     IN  IF a.err # "none" THEN a
                         ELSE ParseOk(Li_expand(a.val[1], a.val[2]))
      [] parse_type \in {"Env", "NoArgs"} ->
            LET c == InstParser_consume_commasep_args(iter, 0)
            IN  IF c.err # "none" THEN c
                ELSE ParseOk(<<PartialInst_new_complete(inst_name, <<>>)>>)
      [] parse_type = "Jal" ->
            LET c == InstParser_consume_unbounded_commasep_args(iter)
            IN  IF c.err # "none" THEN c
                ELSE CASE Len(c.val) = 1 ->
                            LET a == InstParser_try_parse_imm_or_label_ref(20, c.val[1])
                            IN  IF a.err # "none" THEN a
                                ELSE ImmOrLabelInst("JalPseudo", <<>>, a.val)
                       [] Len(c.val) = 2 ->
                            LET a == TryAll(<<InstParser_try_parse_reg(c.val[1]),
                                              InstParser_try_parse_imm_or_label_ref(20, c.val[2])>>)
                            IN  IF a.err # "none" THEN a
                                ELSE ImmOrLabelInst(inst_name, <<a.val[1]>>, a.val[2])
                       [] OTHER -> ParseErr("wrong_diff_argc")
      [] parse_type = "Jalr" ->
            LET c == InstParser_consume_unbounded_commasep_args(iter)
            IN  IF c.err # "none" THEN c
                ELSE CASE Len(c.val) = 1 ->
                            LET a == InstParser_try_parse_reg(c.val[1])
                            IN  IF a.err # "none" THEN a
                                ELSE ParseOk(<<PartialInst_new_complete("JalrPseudo", <<a.val>>)>>)
                       [] Len(c.val) = 3 ->
                            LET a == TryAll(<<InstParser_try_parse_reg(c.val[1]),
                                              InstParser_try_parse_reg(c.val[2]),
                                              InstParser_try_parse_imm(12, c.val[3])>>)
                            IN  IF a.err # "none" THEN a
                                ELSE ParseOk(<<PartialInst_new_complete(inst_name, a.val)>>)
                       [] OTHER -> ParseErr("wrong_diff_argc")
      [] parse_type \in {"U", "RegReg"} ->
            LET c == InstParser_consume_commasep_args(iter, 2)
            IN  IF c.err # "none" THEN c
                ELSE LET a == TryAll(<<InstParser_try_parse_reg(c.val[1]),
                                       IF parse_type = "U"
                                       THEN InstParser_try_parse_imm(20, c.val[2])
                                       ELSE InstParser_try_parse_reg(c.val[2])>>)
                     IN  IF a.err # "none" THEN a
                         ELSE ParseOk(<<PartialInst_new_complete(inst_name, a.val)>>)
      [] parse_type = "LikeJ" ->
            LET c == InstParser_consume_commasep_args(iter, 1)
            IN  IF c.err # "none" THEN c
                ELSE LET a == InstParser_try_parse_imm_or_label_ref(20, c.val[1])
                     IN  IF a.err # "none" THEN a
                         ELSE ImmOrLabelInst(inst_name, <<>>, a.val)
      [] OTHER ->
            LET c == InstParser_consume_commasep_args(iter, 1)
            IN  IF c.err # "none" THEN c
                ELSE LET a == InstParser_try_parse_reg(c.val[1])
                     IN  IF a.err # "none" THEN a
                         ELSE ParseOk(<<PartialInst_new_complete(inst_name, <<a.val>>)>>)

\* InstParser::try_expand_inst
InstParser_try_expand_inst(iter, inst_name) ==
    IF ParseTypeOf(inst_name) # ""
    THEN InstParser_try_expand_found_inst(ParseTypeOf(inst_name), iter, inst_name)
    ELSE ParseErr("bad_inst_name")

\* LineParser::new: the label inherited from the previous line, or else the label
\* definition at the head of the line, which is then consumed.
LineParser_new(tokens, maybe_label) ==
    LET label_passed_in == maybe_label # <<>>
        this_label == IF maybe_label # <<>> THEN maybe_label
                      ELSE IF tokens # <<>> /\ Head(tokens).type = "LabelDef"
                      THEN <<Head(tokens).name>>
                      ELSE <<>>
    IN  [iter |-> IF this_label # <<>> /\ ~label_passed_in THEN Tail(tokens) ELSE tokens,
         label |-> this_label]

\* LineParser::parse: the label of the line and the instructions or the error.
LineParser_parse(self) ==
    [label |-> self.label,
     result |->
        IF self.iter = <<>> THEN ParseOk(<<>>)
        ELSE LET head_tok == Head(self.iter)
             IN  CASE head_tok.type = "Name" ->
                        InstParser_try_expand_inst(Tail(self.iter), head_tok.name)
                   [] head_tok.type = "LabelDef" -> ParseErr("generic")
                   [] head_tok.type \in {"Directive", "Comment"} -> ParseOk(<<>>)
                   [] OTHER -> ParseErr("bad_head")]

\* The number of arguments of a ParseType that takes a fixed number of them.
FixedParseTypes ==
    {"R", "Arith", "B", "U", "Li", "RegReg", "LikeJ", "OneReg", "Env", "NoArgs"}
ArgCount(parse_type) ==
    CASE parse_type \in {"R", "Arith", "B"} -> 3
      [] parse_type \in {"U", "Li", "RegReg"} -> 2
      [] parse_type \in {"LikeJ", "OneReg"} -> 1
      [] OTHER -> 0

\* The lines of one instruction: a head token, up to MaxArgToks tokens of the argument
\* list and possibly a comment, which the lexer only finds at the end of a line.
Tok(type, name, num) == [type |-> type, name |-> name, num |-> num]
HeadToks == {Tok("Name", h, 0) : h \in {"add", "mv", "jr", "nop", "jal", "jalr", "lw", "li"}}
               \cup {Tok("Comma", "", 0)}
ArgToks == {Tok("Name", "x1", 0), Tok("Immediate", "", 4), Tok("Comma", "", 0),
            Tok("LParen", "", 0), Tok("RParen", "", 0)}
ArgSeqs == UNION {[1 .. k -> ArgToks] : k \in 0 .. MaxArgToks}
MkLine(toks) == [i \in 1 .. Len(toks) |-> Token(toks[i].type, toks[i].name, toks[i].num, i)]

InitArgs ==
    /\ CoreIdle
    /\ bm = NoBm
    /\ \E h \in HeadToks, ts \in ArgSeqs, comment \in BOOLEAN :
          asm = [op |-> "line",
                 line |-> MkLine(<<h>> \o ts \o
                                 (IF comment THEN <<Tok("Comment", "", 0)>> ELSE <<>>)),
                 result |-> <<>>, consumed |-> <<>>, legacy |-> <<>>]

\* The line is parsed by LineParser::new and LineParser::parse; consumed is what the
\* argument list gave inside try_expand_found_inst and legacy what the older
\* LineParser::consume_commasep_args gives for it.
ParseInstLine ==
    /\ asm.op = "line"
    /\ asm.result = <<>>
    /\ LET head == asm.line[1]
           iter == Tail(asm.line)
           parse_type == IF head.type = "Name" THEN ParseTypeOf(head.name) ELSE ""
       IN  asm' = [asm EXCEPT
                     !.result = <<LineParser_parse(LineParser_new(asm.line, <<>>)).result>>,
                     !.consumed =
                        CASE parse_type \in FixedParseTypes ->
                                <<InstParser_consume_commasep_args(iter, ArgCount(parse_type))>>
                          [] parse_type \in {"Jal", "Jalr"} ->
                                <<InstParser_consume_unbounded_commasep_args(iter)>>
                          [] OTHER -> <<>>,
                     !.legacy =
                        IF parse_type \in FixedParseTypes
                        THEN <<LineParser_consume_commasep_args(iter, ArgCount(parse_type))>>
                        ELSE <<>>]
    /\ UNCHANGED <<coreVars, bm>>

NextArgs == ParseInstLine

SpecArgs == InitArgs /\ [][NextArgs]_vars

\* Branch and jump lines: beq, bne, jal or jalr followed by up to MaxBranchArgs
\* arguments without commas: a register, a label, and immediates that are even, odd,
\* the largest even ones try_parse_imm(13, ..) takes and the first even ones it refuses.
BranchHeads == {Tok("Name", h, 0) : h \in {"beq", "bne", "jal", "jalr"}}
BranchArgToks ==
    {Tok("Name", "x1", 0), Tok("Name", "loop", 0)}
    \cup {Tok("Immediate", "", v) : v \in {4, 3, -3, 8190, 8192, -4096, -4098}}
BranchArgSeqs == UNION {[1 .. k -> BranchArgToks] : k \in 0 .. MaxBranchArgs}

InitBranch ==
    /\ CoreIdle
    /\ bm = NoBm
    /\ \E h \in BranchHeads, ts \in BranchArgSeqs :
          asm = [op |-> "line", line |-> MkLine(<<h>> \o ts),
                 result |-> <<>>, consumed |-> <<>>, legacy |-> <<>>]

SpecBranch == InitBranch /\ [][NextArgs]_vars

(***************************************************************************)
(* RiscVParser::parse over the lines of a program.                         *)
(***************************************************************************)
\* The labels of line k; every label of a program is defined once.
LabelNames == <<"l1", "l2", "l3", "l4", "l5">>
OtherNames == <<"m1", "m2", "m3", "m4", "m5">>

\* The lines a program is made of, as line k:
\* `add a0 sp fp`, `lk: addi sp sp -4`, `lk:`, `# ...`, the empty line, `lk: # ...`,
\* `lk: addi sp sp 0xF000`, `, add`, `.text` and `lk: mk:`.
LineShapes(k) ==
    {MkLine(<<Tok("Name", "add", 0), Tok("Name", "a0", 0), Tok("Name", "sp", 0),
              Tok("Name", "fp", 0)>>),
     MkLine(<<Tok("LabelDef", LabelNames[k], 0), Tok("Name", "addi", 0),
              Tok("Name", "sp", 0), Tok("Name", "sp", 0), Tok("Immediate", "", -4)>>),
     MkLine(<<Tok("LabelDef", LabelNames[k], 0)>>),
     MkLine(<<Tok("Comment", "", 0)>>),
     <<>>,
     MkLine(<<Tok("LabelDef", LabelNames[k], 0), Tok("Comment", "", 0)>>),
     MkLine(<<Tok("LabelDef", LabelNames[k], 0), Tok("Name", "addi", 0),
              Tok("Name", "sp", 0), Tok("Name", "sp", 0), Tok("Immediate", "", 61440)>>),
     MkLine(<<Tok("Comma", "", 0), Tok("Name", "add", 0)>>),
     MkLine(<<Tok("Directive", "text", 0)>>),
     MkLine(<<Tok("Name", "lw", 0), Tok("Name", "x1", 0), Tok("Comma", "", 0),
              Tok("Immediate", "", 4), Tok("LParen", "", 0), Tok("Name", "x2", 0),
              Tok("RParen", "", 0)>>),
     MkLine(<<Tok("Name", "li", 0), Tok("Name", "a0", 0), Tok("Comma", "", 0),
              Tok("Immediate", "", -559038737)>>),
     MkLine(<<Tok("LabelDef", LabelNames[k], 0), Tok("LabelDef", OtherNames[k], 0)>>)}

\* The programs of up to MaxLines lines.
ProgramsOfLines ==
    UNION {{p \in [1 .. n -> UNION {LineShapes(k) : k \in 1 .. n}] :
                \A k \in 1 .. n : p[k] \in LineShapes(k)} : n \in 1 .. MaxLines}

\* asm.next is the line the for loop of parse is at; from holds, for every instruction
\* of insts, the line it was parsed from and report the lines that gave an error.
InitLines ==
    /\ CoreIdle
    /\ bm = NoBm
    /\ \E p \in ProgramsOfLines :
          asm = [op |-> "parse", lines |-> p, next |-> 1, parsed |-> <<>>, from |-> <<>>,
                 last_label |-> <<>>, report |-> <<>>, done |-> FALSE]

\* The for loop of RiscVParser::parse if it returned at the first error.
ParseLine_abort ==
    /\ asm.op = "parse"
    /\ asm.next <= Len(asm.lines)
    /\ LET r == LineParser_parse(LineParser_new(asm.lines[asm.next], asm.last_label))
           found_label == r.label
           new_insts == r.result.val
           labelled == IF new_insts # <<>> /\ found_label # <<>>
                       THEN <<PartialInst_with_label(new_insts[1], found_label[1])>>
                                \o Tail(new_insts)
                       ELSE new_insts
       IN  IF r.result.err = "none"
           THEN asm' = [asm EXCEPT
                          !.last_label = IF new_insts = <<>> THEN found_label ELSE <<>>,
                          !.parsed = @ \o labelled,
                          !.from = @ \o [i \in 1 .. Len(labelled) |-> asm.next],
                          !.next = @ + 1]
           ELSE asm' = [asm EXCEPT
                          !.report = Append(@, [line |-> asm.next, err |-> r.result.err]),
                          !.next = Len(asm.lines) + 1]
    /\ UNCHANGED <<coreVars, bm>>

\* One round of the for loop of RiscVParser::parse.
ParseLine ==
    /\ asm.op = "parse"
    /\ asm.next <= Len(asm.lines)
    /\ LET r == LineParser_parse(LineParser_new(asm.lines[asm.next], asm.last_label))
           found_label == r.label
           new_insts == r.result.val
           labelled == IF new_insts # <<>> /\ found_label # <<>>
                       THEN <<PartialInst_with_label(new_insts[1], found_label[1])>>
                                \o Tail(new_insts)
                       ELSE new_insts
       IN  IF r.result.err = "none"
           THEN asm' = [asm EXCEPT
                          !.last_label = IF new_insts = <<>> THEN found_label ELSE <<>>,
                          !.parsed = @ \o labelled,
                          !.from = @ \o [i \in 1 .. Len(labelled) |-> asm.next],
                          !.next = @ + 1]
           ELSE asm' = [asm EXCEPT
                          !.report = Append(@, [line |-> asm.next, err |-> r.result.err]),
                          !.next = @ + 1]
    /\ UNCHANGED <<coreVars, bm>>

\* After the last line parse returns the instructions and the report.
ParseReturn ==
    /\ asm.op = "parse"
    /\ asm.next > Len(asm.lines)
    /\ ~asm.done
    /\ asm' = [asm EXCEPT !.done = TRUE]
    /\ UNCHANGED <<coreVars, bm>>

NextLines ==
    \/ ParseLine
    \/ ParseReturn

SpecLines == InitLines /\ [][NextLines]_vars

(***************************************************************************)
(* Properties.                                                             *)
(***************************************************************************)
\* The entry popped by the last revert, and the state before the last applied instruction.
Reverted == last.entry[1]
Before == last.before[1]

\* An apply_inst call has just returned for an instruction of operation op.
JustApplied(op) == phase = "idle" /\ last.op = "apply" /\ last.inst[1].op = op

\* C1: reverting the UserDiff of a non-trapping instruction (noop, pc update, register
\* write, memory-word write) gives back the user state the diff was computed from and
\* applied to: the same pc, the same value in every register and in every memory word.
C1_UserRoundTrip ==
    (phase = "idle" /\ last.op = "revert" /\ Reverted.tag = "UserOnly"
        /\ Reverted.inst.op # "ecall" /\ Reverted.intact)
    => /\ user_state.pc = Reverted.before.user_state.pc
       /\ \A r \in Regs : user_state.regfile[r] = Reverted.before.user_state.regfile[r]
       /\ \A a \in MemAddrs : user_state.memory[a] = Reverted.before.user_state.memory[a]

\* A memory-word write that changed the word has been applied and reverted.
C1_Witness ==
    /\ phase = "idle" /\ last.op = "revert" /\ Reverted.tag = "UserOnly"
    /\ Reverted.inst.op = "mem_write"
    /\ Reverted.diff.mem[1].val.old_value # Reverted.diff.mem[1].val.new_value
    /\ user_state = Reverted.before.user_state

\* C2: after a Write-syscall trap was applied and then its user diff and its privileged
\* diff were reverted, the whole ProgramState (user state and captured streams) equals
\* the state before the instruction.
C2_TrapUndoneBitForBit ==
    (phase = "idle" /\ last.op = "revert" /\ Reverted.tag = "PrivOnly"
        /\ Reverted.diff.tag = "FileWrite" /\ last.chained /\ Reverted.intact)
    => PS = Reverted.before

\* The bytes memory[buf .. buf+len-1] of a user state, read one by one.
BytesAt(ustate, buf, len) == [i \in 1..len |-> Memory_get_byte(ustate.memory, buf + i - 1)]

\* A count (hi * 2^31 + lo) and k more.
CountMore(count, k) ==
    IF count.lo <= I32_MAX - k THEN [count EXCEPT !.lo = @ + k]
    ELSE [hi |-> count.hi + 1, lo |-> ((count.lo - I32_MAX) - 1) + k]

\* The sum of two counts.
CountSum(c, d) == CountMore([hi |-> c.hi + d.hi, lo |-> c.lo], d.lo)

\* The number of bytes of a captured stream, as a count.
RECURSIVE BytesIn(_)
BytesIn(vec) ==
    IF vec = <<>> THEN [hi |-> 0, lo |-> 0] ELSE CountMore(BytesIn(Tail(vec)), vec[1].n)

\* Whether count c is less than count d.
CountBelow(c, d) == c.hi < d.hi \/ (c.hi = d.hi /\ c.lo < d.lo)

\* The byte at position pos (a count, from 0) of a captured stream; -1 past its end.
RECURSIVE ByteAt(_, _)
ByteAt(vec, pos) ==
    IF vec = <<>> THEN -1
    ELSE IF pos.hi = 0 /\ pos.lo < vec[1].n THEN vec[1].byte
    ELSE ByteAt(Tail(vec), CountLess(pos, vec[1].n))

\* The number of bytes other than 0 of a captured stream, as a count.
RECURSIVE NonZeroIn(_)
NonZeroIn(vec) ==
    IF vec = <<>> THEN [hi |-> 0, lo |-> 0]
    ELSE IF vec[1].byte = 0 THEN NonZeroIn(Tail(vec))
    ELSE CountMore(NonZeroIn(Tail(vec)), vec[1].n)

\* Whether the captured stream vec begins with the captured stream head.
StartsWith(vec, head) ==
    \/ head = <<>>
    \/ /\ Len(head) <= Len(vec)
       /\ \A k \in 1..(Len(head) - 1) : vec[k] = head[k]
       /\ vec[Len(head)].byte = head[Len(head)].byte
       /\ vec[Len(head)].n >= head[Len(head)].n

\* The byte address of byte k of the word with word address w, as a 32-bit pattern.
ByteAddrOf(w, k) == IF w >= WORDS \div 2 THEN 4 * (w - WORDS) + k ELSE 4 * w + k

\* How many bytes after buf the byte address addr comes, going round the 32-bit address
\* space: (addr - buf) mod 2^32, as a count.
PlaceOf(addr, buf) ==
    IF (addr < 0) = (buf < 0)
    THEN IF addr >= buf THEN [hi |-> 0, lo |-> addr - buf]
         ELSE [hi |-> 1, lo |-> ((addr - buf) + I32_MAX) + 1]
    ELSE IF buf < 0
    THEN CountMore(CountMore([hi |-> 0, lo |-> addr], -(buf + 1)), 1)
    ELSE LET a == (addr + I32_MAX) + 1
         IN  IF a >= buf THEN [hi |-> 1, lo |-> a - buf]
             ELSE [hi |-> 0, lo |-> ((a - buf) + I32_MAX) + 1]

\* Whether the captured stream after is the captured stream before followed by the
\* bytes of a write of len bytes (len read as an unsigned count) from address buf of
\* the memory of ustate: it begins with before, is longer by the count, every byte of a
\* stored word that is within the count after buf stands at its place, and every other
\* byte that was added is 0, the value of memory that was never stored.
Wrote(before, after, ustate, buf, len) ==
    LET count  == usgn_to_usize(len)
        stored == {wk \in (DOMAIN ustate.memory) \X (0..3) :
                      CountBelow(PlaceOf(ByteAddrOf(wk[1], wk[2]), buf), count)}
        ByteOf(wk) == Memory_get_byte(ustate.memory, ByteAddrOf(wk[1], wk[2]))
    IN  /\ StartsWith(after, before)
        /\ BytesIn(after) = CountSum(BytesIn(before), count)
        /\ \A wk \in stored :
              ByteAt(after, CountSum(BytesIn(before), PlaceOf(ByteAddrOf(wk[1], wk[2]), buf)))
                 = ByteOf(wk)
        /\ NonZeroIn(after) =
              CountMore(NonZeroIn(before), Cardinality({wk \in stored : ByteOf(wk) # 0}))

\* C3: inside the trap arm of apply_diff the privileged effect comes first: while the
\* privileged change is not yet applied the user state is the one before the instruction
\* (pc not advanced, return register not written), and it still is if applying the
\* privileged change aborts; once the stream is extended by the bytes of the write the
\* derived UserDiff has been computed against that pc and those registers and is still
\* to be applied.
C3_PrivBeforeUser ==
    /\ phase \in {"trap", "priv"} => PS = cur.before[1]
    /\ (phase = "aborted" /\ cur.inst # <<>>) => PS = cur.before[1]
    /\ phase = "user" =>
         LET b == cur.before[1]
             d == cur.priv_diff[1]
         IN  /\ Wrote(b.priv_state.stdout, priv_state.stdout, b.user_state, d.buf, d.len)
             /\ user_state = b.user_state
             /\ cur.user_diff[1].pc.old_pc = b.user_state.pc
             /\ cur.user_diff[1].reg[1].val.old_value
                  = b.user_state.regfile[syscall_return_regs[1]]

\* A Write of two bytes is applied to the stream; pc and return register are untouched.
C3_Witness ==
    /\ phase = "user"
    /\ cur.priv_diff[1].len = 2
    /\ BytesIn(priv_state.stdout) = usgn_to_usize(2)
    /\ user_state.pc = TEXT_START_32
    /\ user_state.regfile["a0"] = 1

\* C4: an ecall with the Write number, fd = 1, buf = X and len = N is applied, it does
\* not abort; it appends exactly memory[X], ..., memory[X+N-1] in that order to the
\* captured stdout, sets the return register to N, sets pc to old pc + 4 and changes no
\* other register and no memory word; with N = 0 nothing is appended and the return
\* register becomes 0.
C4_WriteSyscall ==
    /\ (cur.inst # <<>> /\ cur.inst[1].op = "ecall" /\ cur.trap_kind = "Ecall"
          /\ cur.before[1].user_state.regfile["a0"] = 1
          /\ number_to_syscall(cur.before[1].user_state.regfile["a7"]) = "Write")
       => phase # "aborted"
    /\ (JustApplied("ecall") /\ Before.user_state.regfile["a0"] = 1)
       => LET b == Before.user_state
              X == b.regfile["a1"]
              N == b.regfile["a2"]
          IN  /\ number_to_syscall(b.regfile["a7"]) = "Write"
              /\ Wrote(Before.priv_state.stdout, priv_state.stdout, b, X, N)
              /\ N >= 0 => priv_state.stdout =
                              Vec_extend(Before.priv_state.stdout, VecOf(BytesAt(b, X, N)))
              /\ N = 0 => priv_state.stdout = Before.priv_state.stdout
              /\ user_state.regfile = [b.regfile EXCEPT !["a0"] = N]
              /\ user_state.pc = b.pc + 4
              /\ user_state.memory = b.memory

\* C5: a file write is routed by its file descriptor: fd = 1 extends the captured stdout
\* and leaves stderr alone, fd = 2 extends the captured stderr and leaves stdout alone.
C5_RoutedByFd ==
    JustApplied("ecall")
    => LET b == Before.user_state
           Extended(before, after) == Wrote(before, after, b, b.regfile["a1"], b.regfile["a2"])
       IN  /\ b.regfile["a0"] = 1 =>
                /\ Extended(Before.priv_state.stdout, priv_state.stdout)
                /\ priv_state.stderr = Before.priv_state.stderr
           /\ b.regfile["a0"] = 2 =>
                /\ Extended(Before.priv_state.stderr, priv_state.stderr)
                /\ priv_state.stdout = Before.priv_state.stdout

\* C6: dispatching an ecall whose number register does not decode to Write aborts the
\* simulator in that very step, with user state and privileged state unchanged; nothing
\* runs after an abort.
C6_UnknownSyscallAborts ==
    [][/\ (phase = "trap" /\ cur.trap_kind = "Ecall"
             /\ number_to_syscall(user_state.regfile[syscall_number_reg]) # "Write")
          => (phase' = "aborted" /\ user_state' = user_state /\ priv_state' = priv_state)
       /\ phase # "aborted"]_vars

\* An ecall with an unrecognized number has aborted, the state is the one before it.
C6_Witness ==
    /\ phase = "aborted"
    /\ cur.trap_kind = "Ecall"
    /\ user_state.regfile["a7"] = 99
    /\ PS = cur.before[1]

\* C7: a signed overflow raised by an instruction is handled by trap dispatch without
\* aborting the simulator, and the destination register keeps its value.
C7_OverflowRecovered ==
    cur.trap_kind = "IntOverflow"
    => /\ phase # "aborted"
       /\ user_state.regfile[cur.inst[1].rd] = cur.before[1].user_state.regfile[cur.inst[1].rd]

\* Whether the per-opcode eval of an R instruction overflows on the registers of a state.
ROverflows(i, ustate) ==
    IF i.name = "add" THEN AddOverflows(ustate.regfile[i.rs], ustate.regfile[i.rt])
    ELSE SubOverflows(ustate.regfile[i.rs], ustate.regfile[i.rt])

\* C8: an R instruction reads rs and rt; when eval returns v the result is the one diff
\* that writes v to rd, records rd's current value as the old value and sets
\* new pc = pc + 4; when eval overflows the result is the integer-overflow trap and
\* nothing is written.
C8_RTypeResult ==
    /\ JustApplied("rtype") =>
         LET i == last.inst[1]
             b == Before.user_state
         IN  /\ ~ROverflows(i, b)
             /\ last.result[1] =
                  UserStateChange(
                    [pc  |-> [old_pc |-> b.pc, new_pc |-> b.pc + 4],
                     reg |-> <<[reg |-> i.rd,
                                val |-> [old_value |-> b.regfile[i.rd],
                                         new_value |-> IF i.name = "add"
                                                       THEN b.regfile[i.rs] + b.regfile[i.rt]
                                                       ELSE b.regfile[i.rs] - b.regfile[i.rt]]]>>,
                     mem |-> <<>>])
             /\ user_state = [b EXCEPT !.pc = b.pc + 4,
                                       !.regfile[i.rd] = last.result[1].diff[1].reg[1].val.new_value]
    /\ (phase # "idle" /\ cur.inst[1].op = "rtype") =>
         /\ cur.trap_kind = "IntOverflow"
         /\ ROverflows(cur.inst[1], cur.before[1].user_state)
         /\ PS = cur.before[1]

\* An add without overflow has written a sum that differs from rd's old value.
C8_Witness ==
    /\ JustApplied("rtype")
    /\ last.inst[1].name = "add"
    /\ last.inst[1].rd = "t0"
    /\ Before.user_state.regfile["t0"] = I32_MAX
    /\ user_state.regfile["t0"] = 3

\* C9: the UserDiff of a non-branching, non-trapping instruction (noop, register write
\* with pc + 4, memory write) and the UserDiff derived from a resolved syscall have
\* old_pc = the pc of the state they were computed from and new_pc = old_pc + 4.
C9_PcAdvance ==
    /\ \A k \in 1..Len(undo) :
          (undo[k].tag = "UserOnly" /\ undo[k].computed
             /\ undo[k].inst.op \in {"noop", "reg_write", "mem_write", "rtype", "ecall"})
          => /\ undo[k].diff.pc.old_pc = undo[k].before.user_state.pc
             /\ undo[k].diff.pc.new_pc = undo[k].diff.pc.old_pc + 4
    /\ phase = "user" =>
          /\ cur.user_diff[1].pc.old_pc = cur.before[1].user_state.pc
          /\ cur.user_diff[1].pc.new_pc = cur.user_diff[1].pc.old_pc + 4

\* A noop diff computed at a pc other than the text base, and a syscall-derived diff.
C9_Witness ==
    /\ Len(undo) = 3
    /\ undo[1].inst.op = "pc_update"
    /\ undo[2].tag = "PrivOnly"
    /\ undo[3].tag = "UserOnly" /\ undo[3].inst.op = "ecall"
    /\ undo[3].diff.pc.old_pc = TEXT_START_32 + 8
    /\ undo[3].diff.pc.new_pc = TEXT_START_32 + 12

\* C10: handle_exit gives Exit(n) the status n mod 128 (so at most 127), SegFault the
\* status 139 and BusError the status 138 (both at least 128).
C10_ExitStatus ==
    exit_status # -1
    => CASE term_cause.tag = "Exit" ->
               /\ exit_status = term_cause.code % 128
               /\ exit_status \in 0..127
               /\ (term_cause.code = 5 => exit_status = 5)
               /\ (term_cause.code = 128 => exit_status = 0)
         [] term_cause.tag = "SegFault" -> exit_status = 139 /\ exit_status >= 128
         [] OTHER -> exit_status = 138 /\ exit_status >= 128

\* Exit(261) has been mapped: 261 as u8 is 5.
C10_Witness ==
    /\ term_cause = [tag |-> "Exit", code |-> 261]
    /\ exit_status = 5

\* C11: handle_exit writes to the captured stderr only for faults: SegFault appends
\* exactly "Segmentation fault: 11\n", BusError appends exactly "bus error\n", Exit(n)
\* appends nothing; the user state (pc, registers, memory) and the captured stdout are
\* the ones before the call.
C11_ExitDiagnostic ==
    last.op = "handle_exit"
    => /\ priv_state.stderr =
            Vec_extend(Before.priv_state.stderr,
              VecOf(CASE term_cause.tag = "SegFault" ->
                           <<83, 101, 103, 109, 101, 110, 116, 97, 116, 105, 111, 110, 32,
                             102, 97, 117, 108, 116, 58, 32, 49, 49, 10>>
                      [] term_cause.tag = "BusError" ->
                           <<98, 117, 115, 32, 101, 114, 114, 111, 114, 10>>
                      [] OTHER -> <<>>))
       /\ priv_state.stdout = Before.priv_state.stdout
       /\ user_state.pc = Before.user_state.pc
       /\ user_state.regfile = Before.user_state.regfile
       /\ user_state.memory = Before.user_state.memory

\* A bus error was reported after earlier output: stderr is "E" then "bus error\n",
\* stdout still "Hi".
C11_Witness ==
    /\ last.op = "handle_exit"
    /\ term_cause.tag = "BusError"
    /\ priv_state.stdout = VecOf(<<72, 105>>)
    /\ BytesIn(priv_state.stderr) = usgn_to_usize(11)
    /\ priv_state.stderr[1].byte = 69 /\ priv_state.stderr[2].byte = 98
    /\ priv_state.stderr[Len(priv_state.stderr)].byte = 10

\* C12: a TermCause is terminal: the step that applies PrivDiff::Terminate(cause) stops
\* the loop with that cause and changes neither the user state nor the privileged state,
\* and once a Terminate has been applied no instruction is evaluated or applied: the
\* count of applications and the user state stay as they were.
C12_TermCauseTerminal ==
    [][/\ (last'.op = "apply_priv" /\ last'.entry[1].tag = "Terminate")
            => /\ driver'.status \in {"terminated", "exited"}
               /\ driver'.cause = last'.entry[1].cause
               /\ user_state' = last'.before[1].user_state
       /\ driver.terminate_applied
            => /\ steps' = steps
               /\ user_state' = user_state
               /\ last' = last]_vars

\* The program consists of instructions that advance the pc by 4 and of traps that do
\* not abort: no branch, and every ecall comes after an instruction that has set the
\* syscall number to Write (its length register a2 is 0, as loaded).
StraightLine ==
    \A k \in 1..Len(insts) :
       \/ insts[k].op \in {"noop", "reg_write"}
       \/ /\ insts[k].op = "ecall"
          /\ \E j \in 1..(k - 1) :
                /\ insts[j].op = "reg_write" /\ insts[j].rd = syscall_number_reg
                /\ number_to_syscall(insts[j].val) = "Write"

\* C13: run applies the instruction at index (pc - TEXT_START) / 4 of the instruction
\* vector, returns exactly when that index is not a valid index, and returns the value of
\* a0; a program of n instructions that each advance the pc by 4 has pc = TEXT_START + 4k
\* after k applications and returns after exactly n of them with pc = TEXT_START + 4n.
C13_RunLoopInv ==
    /\ (run_status = "loaded" /\ phase = "idle" /\ last.op = "apply") =>
          /\ Before.user_state.pc >= TEXT_START_32
          /\ (Before.user_state.pc - TEXT_START_32) \div 4 < Len(insts)
          /\ last.inst[1] = insts[(Before.user_state.pc - TEXT_START_32) \div 4 + 1]
    /\ run_status = "returned" =>
          /\ \/ user_state.pc < TEXT_START_32
             \/ (user_state.pc - TEXT_START_32) \div 4 >= Len(insts)
          /\ run_ret = <<user_state.regfile["a0"]>>
    /\ (run_status \in {"loaded", "returned"} /\ StraightLine) =>
          /\ phase # "aborted"
          /\ phase = "idle" => user_state.pc = TEXT_START_32 + 4 * steps
          /\ phase # "idle" => user_state.pc = TEXT_START_32 + 4 * (steps - 1)
          /\ steps <= Len(insts)
          /\ run_status = "returned" => (phase = "idle" /\ steps = Len(insts))

\* C13, with termination: the loop invariant above holds in every state, and the run of
\* a program whose instructions all advance the pc by 4 does return.
C13_RunLoop ==
    /\ []C13_RunLoopInv
    /\ (run_status = "loaded" /\ StraightLine) ~> (run_status = "returned")

\* A run of three such instructions, the last a Write syscall of no bytes, has returned
\* the 0 that the syscall wrote to a0.
C13_Witness ==
    /\ run_status = "returned"
    /\ StraightLine
    /\ Len(insts) = 3
    /\ insts[3].op = "ecall"
    /\ steps = 3
    /\ user_state.pc = TEXT_START_32 + 12
    /\ run_ret = <<0>>

\* C14: a run does not end normally with a return value when the pc has left the
\* instruction stream below the text base or by a jump past the last instruction: a run
\* that returns has its pc right after the last instruction.
C14_StrayPcAborts ==
    run_status = "returned" => user_state.pc = TEXT_START_32 + 4 * Len(insts)

\* C15: ProgramState::new gives all registers zero and an empty captured stdout; after
\* RiscVProgram::new the pc is 0x1000_0000, the stack pointer is 0x7FFF_FFF0, every
\* other register is 0 and the captured stdout is empty.
C15_InitialState ==
    /\ run_status = "new" =>
          /\ \A r \in Regs : user_state.regfile[r] = 0
          /\ priv_state.stdout = <<>>
    /\ (run_status = "loaded" /\ steps = 0 /\ phase = "idle") =>
          /\ user_state.pc = TEXT_START_32
          /\ user_state.regfile["sp"] = STACK_START_32
          /\ \A r \in Regs \ {"sp"} : user_state.regfile[r] = 0
          /\ priv_state.stdout = <<>>

\* A program of two instructions with data has been constructed and not yet run.
C15_Witness ==
    /\ run_status = "loaded" /\ steps = 0 /\ phase = "idle"
    /\ Len(insts) = 2
    /\ args.data = <<17, 34>>
    /\ user_state.regfile["sp"] = STACK_START_32
    /\ user_state.pc = TEXT_START_32

\* C16: after RiscVProgram::new the instruction vector is the given one, in the given
\* order, and for every k below its length the memory word at byte address
\* TEXT_START + 4k is insts[k].to_machine_code().
C16_TextLoaded ==
    (run_status = "loaded" /\ steps = 0 /\ phase = "idle") =>
        /\ insts = args.insts
        /\ \A k \in 0..(Len(args.insts) - 1) :
              user_state.memory[(TEXT_START_32 + 4 * k) \div 4]
                = Inst_to_machine_code(args.insts[k + 1])

\* Three instructions with three different machine words have been loaded.
C16_Witness ==
    /\ run_status = "loaded" /\ steps = 0 /\ phase = "idle"
    /\ Len(insts) = 3
    /\ insts[1].op = "reg_write" /\ insts[2].op = "ecall" /\ insts[3].op = "pc_update"
    /\ user_state.memory[TEXT_START_32 \div 4] # user_state.memory[TEXT_START_32 \div 4 + 1]
    /\ user_state.memory[TEXT_START_32 \div 4 + 1] # user_state.memory[TEXT_START_32 \div 4 + 2]
    /\ user_state.memory[TEXT_START_32 \div 4 + 2] # 0

\* C17: after RiscVProgram::new, byte k of data ++ rodata is the memory byte at address
\* DATA_START + k, for every k.
C17_DataSequential ==
    (run_status = "loaded" /\ steps = 0 /\ phase = "idle") =>
        \A k \in 0..(Len(args.data \o args.rodata) - 1) :
            Memory_get_byte(user_state.memory, DATA_START_32 + k) = (args.data \o args.rodata)[k + 1]

\* The user state that a UserDiff describes when it is applied to a user state.
DiffEffect(ustate, d) ==
    [pc |-> d.pc.new_pc,
     regfile |-> [r \in Regs |->
                    IF d.reg # <<>> /\ d.reg[1].reg = r /\ r # "zero"
                    THEN d.reg[1].val.new_value ELSE ustate.regfile[r]],
     memory |-> [a \in DOMAIN ustate.memory |->
                    IF d.mem # <<>> /\ d.mem[1].addr = a
                    THEN d.mem[1].val.new_value ELSE ustate.memory[a]]]

\* C18: evaluating an instruction and resolving a trap into a privileged change leave
\* the whole ProgramState unchanged: a step that ends in a trap, and the step that runs
\* handle_trap and dispatch_syscall, change neither user state nor streams; a step that
\* evaluates and applies a non-trapping instruction changes exactly what its diff says.
C18_EvalAndResolveFrame ==
    [][/\ phase = "trap" => PS' = PS
       /\ (phase = "idle" /\ phase' = "trap") => PS' = PS
       /\ (phase = "idle" /\ phase' = "idle" /\ last'.op \in {"apply", "apply_diff"}) =>
             /\ priv_state' = priv_state
             /\ user_state' = DiffEffect(user_state, last'.result[1].diff[1])]_vars

\* After the state was changed by an earlier instruction, an ecall was evaluated and its
\* trap resolved to a file write, and the state is still the one before the ecall.
C18_Witness ==
    /\ phase = "priv"
    /\ cur.priv_diff[1].tag = "FileWrite"
    /\ cur.priv_diff[1].len = 2
    /\ steps = 2
    /\ PS = cur.before[1]
    /\ user_state.pc # TEXT_START_32

\* The registers and memory words the evaluation of an instruction reads: the sources
\* and, for the old value recorded in the diff, the destination.
ReadRegs(inst) ==
    CASE inst.op = "rtype" -> {inst.rs, inst.rt, inst.rd}
      [] inst.op \in {"reg_write", "reg_write_op"} -> {inst.rd}
      [] OTHER -> {}
ReadMem(inst) == IF inst.op = "mem_write" THEN {inst.addr} ELSE {}

\* Two user states agree on the pc and on what the instruction reads.
Agree(inst, s, t) ==
    /\ s.pc = t.pc
    /\ \A r \in ReadRegs(inst) : s.regfile[r] = t.regfile[r]
    /\ \A a \in ReadMem(inst) : s.memory[a] = t.memory[a]

\* C19: evaluation is deterministic: against two states that agree on the pc and on the
\* registers and memory words the instruction reads, whatever the other registers,
\* memory words and captured streams hold, an instruction yields the same result, the
\* same UserDiff field for field or the same trap; and applying the results to two equal
\* user states yields equal user states.
C19_Deterministic ==
    /\ det.inst # <<>> =>
          (Agree(det.inst[1], det.before[1].user_state, det.other_before[1].user_state)
             => det.result = det.other_result)
    /\ (det.inst # <<>> /\ phase = "idle" /\ steps = 1
          /\ det.before[1].user_state = det.other_before[1].user_state)
          => user_state = det.other[1].user_state

\* An add was evaluated to the same diff against two states that differ in a register it
\* does not read, and both diffs were applied.
C19_Witness ==
    /\ det.inst # <<>> /\ steps = 1
    /\ det.inst[1].op = "rtype" /\ det.inst[1].rd = "t0"
    /\ det.result[1].tag = "UserStateChange"
    /\ det.result = det.other_result
    /\ det.before[1].user_state.regfile["a1"] # det.other_before[1].user_state.regfile["a1"]
    /\ user_state.regfile["t0"] = det.other[1].user_state.regfile["t0"]
    /\ user_state.regfile["t0"] # det.before[1].user_state.regfile["t0"]

\* The 32-bit word of the fields of an instruction, the first field in the highest bits:
\* opcode(6) rs(5) rt(5) rd(5) shamt(5) funct(6), opcode(6) rs(5) rt(5) imm(16),
\* opcode(6) addr(26).
FieldWord(f) ==
    CASE f.tag = "R" -> f.opcode.value * 67108864 + RegIndex(f.rs) * 2097152
                          + RegIndex(f.rt) * 65536 + RegIndex(f.rd) * 2048
                          + f.shamt.value * 64 + f.funct.value
      [] f.tag = "I" -> f.opcode.value * 67108864 + RegIndex(f.rs) * 2097152
                          + RegIndex(f.rt) * 65536 + f.imm.value
      [] OTHER -> f.opcode.value * 67108864 + f.addr.value

\* C20: two instructions are equal exactly when their machine words are equal, whatever
\* their names and evaluation procedures; equality is reflexive, symmetric and transitive.
C20_EqualIffSameWord ==
    /\ cmp.eq # <<>> =>
          /\ cmp.eq[1] = (FieldWord(cmp.a[1].data.fields) = FieldWord(cmp.b[1].data.fields))
          /\ cmp.eq[1] = (MipsInst_to_machine_code(cmp.a[1]) = MipsInst_to_machine_code(cmp.b[1]))
          /\ cmp.eq[1] = MipsInst_eq(cmp.b[1], cmp.a[1])
          /\ MipsInst_eq(cmp.a[1], cmp.a[1])
          /\ \A c \in MipsInstSet :
                (cmp.eq[1] /\ MipsInst_eq(cmp.b[1], c)) => MipsInst_eq(cmp.a[1], c)

\* An add and an instruction of another name and eval with the same fields compare equal.
C20_Witness ==
    /\ cmp.eq = <<TRUE>>
    /\ cmp.a[1].data.name = "add" /\ cmp.b[1].data.name = "plus"
    /\ cmp.a[1].eval # cmp.b[1].eval

\* C21: to_machine_code is the concatenation of the encoding fields alone, the first
\* field in the most significant bits: R is opcode | rs | rt | rd | shamt | funct, I is
\* opcode | rs | rt | imm, J is opcode | addr; a second call returns the same word, and an
\* instruction with the same fields but another name or evaluation procedure has the
\* same word.
C21_BitConcatenation ==
    cmp.words # <<>> =>
        /\ cmp.words[1] = FieldWord(cmp.a[1].data.fields)
        /\ cmp.words[3] = FieldWord(cmp.b[1].data.fields)
        /\ cmp.words[2] = cmp.words[1]
        /\ cmp.a[1].data.fields = cmp.b[1].data.fields => cmp.words[3] = cmp.words[1]
        /\ cmp.words[1] \in 0..2147483647

\* add t0, a1, a2 is 0x016C2820 and an instruction of another name and eval with the
\* same fields has the same word.
C21_Witness ==
    /\ cmp.words # <<>>
    /\ cmp.a[1].data.name = "add" /\ cmp.a[1].data.fields.rd = "t0"
    /\ cmp.a[1].data.fields.rt = "a2"
    /\ cmp.words[1] = 23865376
    /\ cmp.b[1].data.name = "plus" /\ cmp.b[1].data.fields = cmp.a[1].data.fields
    /\ cmp.b[1].eval # cmp.a[1].eval
    /\ cmp.words[3] = 23865376

\* C22: a call of apply_inst that returns has applied exactly one UserDiff to the user
\* state: exactly one user diff belongs to the call, it was computed at the pc the
\* instruction started from, and the user state is the state before the call changed by
\* that one diff; a resolved syscall has one privileged change before it.
C22_OneUserDiff ==
    (phase = "idle" /\ last.op = "apply") =>
        LET mine == {k \in 1..Len(undo) : undo[k].id = steps /\ undo[k].tag = "UserOnly"}
        IN  /\ Cardinality(mine) = 1
            /\ Len(undo) \in mine
            /\ undo[Len(undo)].diff.pc.old_pc = Before.user_state.pc
            /\ user_state = DiffEffect(Before.user_state, undo[Len(undo)].diff)
            /\ last.result[1].tag = "Trap" =>
                  /\ Len(undo) >= 2
                  /\ undo[Len(undo) - 1].tag = "PrivOnly"
                  /\ undo[Len(undo) - 1].id = steps
                  /\ \A k \in 1..(Len(undo) - 2) : undo[k].id # steps
            /\ last.result[1].tag = "UserStateChange" =>
                  /\ undo[Len(undo)].diff = last.result[1].diff[1]
                  /\ \A k \in 1..(Len(undo) - 1) : undo[k].id # steps

\* A Write syscall of two bytes returned: one privileged change, then one user diff that
\* wrote 2 to a0 and advanced the pc.
C22_Witness ==
    /\ JustApplied("ecall")
    /\ Len(undo) = 2
    /\ undo[1].tag = "PrivOnly" /\ undo[2].tag = "UserOnly"
    /\ undo[2].diff.reg[1].val.new_value = 2
    /\ user_state.regfile["a0"] = 2
    /\ user_state.pc = Before.user_state.pc + 4

\* C23: no revert aborts: revert_diff completes for a UserDiff and for every variant of
\* the privileged diff that was applied (file write, page-table update, break-pointer
\* update, terminate).
C23_RevertsNeverAbort ==
    driver.status # "revert_aborted"

\* The number of flips of index i that returned, and the backing words after the k-th.
FlipCount(i) == Cardinality({k \in 1 .. Len(bm.hist) : bm.hist[k].idx = i})
BitsAfter(k) == IF k = Len(bm.hist) THEN bm.self.bits ELSE bm.hist[k + 1].bits

\* C24: a new bitmap reads false at every index; read(i) is true exactly when flip(i)
\* has returned an odd number of times; a flip changes index i only, also where the
\* indices lie in different backing words; two flips of one index in a row restore the
\* bitmap.
C24_BitmapParity ==
    /\ bm.self.bit_cnt \in BitCnts
    /\ \A i \in 0 .. bm.self.bit_cnt - 1 :
          Bitmap_read(bm.self, i) = [panic |-> FALSE, val |-> FlipCount(i) % 2 = 1]
    /\ (bm.op = "read" /\ ~bm.panic) => bm.ret = (FlipCount(bm.idx) % 2 = 1)
    /\ \A k \in 1 .. Len(bm.hist) :
          LET was == [bit_cnt |-> bm.self.bit_cnt, bits |-> bm.hist[k].bits]
              now == [bit_cnt |-> bm.self.bit_cnt, bits |-> BitsAfter(k)]
              w == bm.hist[k].idx \div U64_BITS + 1
          IN  /\ Bitmap_read(now, bm.hist[k].idx).val # Bitmap_read(was, bm.hist[k].idx).val
              /\ \A i \in 0 .. bm.self.bit_cnt - 1 :
                    i # bm.hist[k].idx => Bitmap_read(now, i) = Bitmap_read(was, i)
              /\ \A v \in 1 .. Len(now.bits) : v # w => now.bits[v] = was.bits[v]
              /\ U64_xor(now.bits[w], was.bits[w]) = {bm.hist[k].idx % U64_BITS}
    /\ \A k \in 1 .. Len(bm.hist) - 1 :
          bm.hist[k].idx = bm.hist[k + 1].idx => BitsAfter(k + 1) = bm.hist[k].bits

\* flip(65), flip(128), flip(65) on a bitmap of 130 bits, then read(128): index 128,
\* in the third backing word, reads true and index 65 is back to false.
C24_Witness ==
    /\ bm.self.bit_cnt = 130
    /\ Len(bm.hist) = 3
    /\ bm.hist[1].idx = 65 /\ bm.hist[2].idx = 128 /\ bm.hist[3].idx = 65
    /\ bm.op = "read" /\ bm.idx = 128 /\ bm.ret = TRUE /\ ~bm.panic
    /\ bm.self.bits = <<{}, {}, {0}>>

\* C25: read(idx) and flip(idx) panic exactly when idx >= bit_cnt, also when idx lies
\* inside the allocated backing words; a flip that panics changes no bit.
C25_OutOfBoundsPanics ==
    /\ bm.op \in {"read", "flip"} => (bm.panic <=> bm.idx >= bm.before.bit_cnt)
    /\ (bm.op \in {"read", "flip"} /\ bm.panic) => bm.self = bm.before

\* flip(127) on a bitmap of 65 bits (two backing words, 128 allocated bits) with bit 64
\* set: the call panics and the bitmap is as before.
C25_Witness ==
    /\ bm.self.bit_cnt = 65
    /\ Len(bm.self.bits) = 2
    /\ bm.op = "flip" /\ bm.idx = 127 /\ bm.panic
    /\ bm.self.bits = <<{}, {0}>>
    /\ bm.before = bm.self

\* C27: for n < 32 try_parse_imm(n, val) accepts a non-negative val exactly when
\* val < 2^n and a negative val exactly when its upper 32 - n + 1 bits are all 1, that
\* is val >= -2^(n-1); every other value is an imm_too_big error; for n = 32 every
\* value is accepted.
C27_ImmFits ==
    (asm.op = "imm" /\ asm.result # <<>>) =>
        LET n == asm.n
            val == asm.token.num
            r == asm.result[1]
            accepted == r.err = "none"
        IN  /\ n < 32 =>
                  /\ val >= 0 => (accepted <=> val < 2^n)
                  /\ val < 0 => /\ accepted <=> val >= -(2^(n - 1))
                                /\ accepted <=> \A b \in (n - 1) .. 31 : b \in I32_bits(val)
            /\ n = 32 => accepted
            /\ ~accepted => r.err = "imm_too_big"
            /\ accepted => r.val = val

\* The immediate of `addi sp sp 0xF000` is rejected for the 12-bit field.
C27_Witness ==
    /\ asm.op = "imm" /\ asm.n = 12 /\ asm.token.num = 61440
    /\ asm.result = <<ParseErr("imm_too_big")>>

\* The argument list of a line without its comment, its name and immediate tokens, and
\* whether it is made of arguments with at most one comma between two of them and no
\* comma before the first or after the last.
ArgList(line) ==
    LET rest == Tail(line)
    IN  IF rest # <<>> /\ rest[Len(rest)].type = "Comment"
        THEN SubSeq(rest, 1, Len(rest) - 1) ELSE rest
ArgsOf(list) == SelectSeq(list, IsArg)
WellSeparated(list) ==
    /\ \A i \in 1 .. Len(list) : list[i].type \in {"Name", "Immediate", "Comma"}
    /\ list # <<>> => (list[1].type # "Comma" /\ list[Len(list)].type # "Comma")
    /\ \A i \in 1 .. Len(list) - 1 : ~(list[i].type = "Comma" /\ list[i + 1].type = "Comma")

\* C26: for an instruction with n arguments consume_commasep_args accepts exactly the
\* lists of n name/immediate arguments with at most one comma between two of them and
\* returns the arguments in order; a comma before the first or after the last argument,
\* two commas in a row and a comma before the instruction name make the line an error;
\* a list without commas is accepted.  The older parser accepts the same lists.
C26_FixedArgs ==
    (asm.op = "line" /\ asm.result # <<>>) =>
        LET head == asm.line[1]
            list == ArgList(asm.line)
        IN  /\ head.type = "Comma" => asm.result[1].err = "bad_head"
            /\ (head.type = "Name" /\ ParseTypeOf(head.name) \in FixedParseTypes) =>
                  LET n == ArgCount(ParseTypeOf(head.name))
                      c == asm.consumed[1]
                  IN  /\ c.err = "none" <=> (WellSeparated(list) /\ Len(ArgsOf(list)) = n)
                      /\ c.err = "none" => c.val = ArgsOf(list)
                      /\ c.err # "none" => asm.result[1].err = c.err
                      /\ (Len(list) = n /\ \A i \in 1 .. n : IsArg(list[i])) => c.err = "none"
                      /\ list = Tail(asm.line) =>
                            /\ asm.legacy[1].err = "none" <=> c.err = "none"
                            /\ c.err = "none" => asm.legacy[1].val = c.val

\* `add x1, x1 4 # ...`: one comma, then none; the three arguments are returned.
C26_Witness ==
    /\ asm.op = "line" /\ asm.result # <<>>
    /\ Len(asm.line) = 6
    /\ asm.line[1].name = "add"
    /\ asm.line[2].name = "x1" /\ asm.line[3].type = "Comma" /\ asm.line[4].name = "x1"
    /\ asm.line[5].type = "Immediate" /\ asm.line[6].type = "Comment"
    /\ asm.consumed[1].err = "none"
    /\ asm.consumed[1].val = <<asm.line[2], asm.line[4], asm.line[5]>>
    /\ asm.result[1].err = "unexpected_type"

\* C29: consume_unbounded_commasep_args (jal, jalr) rejects every list whose first or
\* last token is a comma and every list with two commas in a row, and otherwise
\* returns the name and immediate tokens in order up to the comment or the end of line.
C29_UnboundedArgs ==
    (asm.op = "line" /\ asm.result # <<>> /\ asm.line[1].name \in {"jal", "jalr"}) =>
        LET list == ArgList(asm.line)
            c == asm.consumed[1]
        IN  /\ ~WellSeparated(list) => c.err # "none"
            /\ WellSeparated(list) => c = ParseOk(ArgsOf(list))

\* The label defined at the head of line k, the instructions parsed from line k and the
\* first of them.
HeadLabel(k) ==
    IF asm.lines[k] # <<>> /\ asm.lines[k][1].type = "LabelDef"
    THEN <<asm.lines[k][1].name>> ELSE <<>>
InstsOf(k) == {i \in 1 .. Len(asm.parsed) : asm.from[i] = k}
FirstOf(k) == CHOOSE i \in InstsOf(k) : \A j \in InstsOf(k) : i <= j

\* C28: a label at the head of a line is attached to the first instruction parsed from
\* that line and to no other; a label on a line that yields no instruction is attached
\* to the first instruction of the next line that yields instructions; an instruction
\* without a pending label has no label; no label is attached to two instructions.
C28_LabelAttachment ==
    asm.op = "parse" =>
        LET done == 1 .. asm.next - 1
        IN  /\ \A k \in done :
                  (HeadLabel(k) # <<>> /\ InstsOf(k) # {}) =>
                      /\ asm.parsed[FirstOf(k)].label = HeadLabel(k)
                      /\ \A i \in 1 .. Len(asm.parsed) :
                            i # FirstOf(k) => asm.parsed[i].label # HeadLabel(k)
            /\ \A k \in done, j \in done :
                  (/\ HeadLabel(k) # <<>>
                   /\ k < j
                   /\ \A t \in k .. j - 1 : InstsOf(t) = {}
                   /\ InstsOf(j) # {}) =>
                      asm.parsed[FirstOf(j)].label = HeadLabel(k)
            /\ \A i \in 1 .. Len(asm.parsed) :
                  (\A k \in 1 .. asm.from[i] :
                        (\A t \in k .. asm.from[i] - 1 : InstsOf(t) = {}) => HeadLabel(k) = <<>>)
                      => asm.parsed[i].label = <<>>
            /\ \A i \in 1 .. Len(asm.parsed), j \in 1 .. Len(asm.parsed) :
                  (i # j /\ asm.parsed[i].label # <<>>) =>
                      asm.parsed[i].label # asm.parsed[j].label

RECURSIVE Replay(_, _)
\* The user state reached from ustate by the diffs of the undo entries, oldest first.
Replay(ustate, entries) ==
    IF entries = <<>> THEN ustate
    ELSE Replay(DiffEffect(ustate, Head(entries).diff), Tail(entries))

\* C30: with only non-trapping instructions on the undo stack, each diff was computed
\* from the state reached by the diffs below it, and the user state is the state the
\* caller started from changed by the diffs that are still on the stack: after
\* reverting dn .. d(k+1) it is the state after d1 .. dk, and with every diff reverted
\* it is the starting state.
C30_UndoStack ==
    (/\ phase = "idle"
     /\ \A k \in 1 .. Len(undo) :
           undo[k].tag = "UserOnly" /\ undo[k].inst.op # "ecall" /\ undo[k].intact) =>
        /\ user_state = Replay(origin[1].user_state, undo)
        /\ undo = <<>> => user_state = origin[1].user_state
        /\ \A k \in 1 .. Len(undo) :
              undo[k].before.user_state = Replay(origin[1].user_state, SubSeq(undo, 1, k - 1))

\* Two instructions were applied and both reverted, the second one first; the first
\* was a register write that had changed its register.
C30_Witness ==
    /\ phase = "idle" /\ steps = 2 /\ undo = <<>>
    /\ last.op = "revert" /\ Reverted.id = 1 /\ Reverted.tag = "UserOnly"
    /\ Reverted.inst.op = "reg_write"
    /\ Reverted.diff.reg[1].val.old_value # Reverted.diff.reg[1].val.new_value
    /\ user_state = origin[1].user_state

\* C31: handle_trap handles the system-call kind only: on a trap of another kind (page
\* fault, integer overflow) it aborts in that step with user and privileged state
\* unchanged; only a system-call trap gets past dispatch, and a system-call trap that
\* dispatch has handled goes on: its privileged diff is applied, and then the machine is
\* idle again with exactly its one derived UserDiff applied.
C31_OnlySyscallHandled ==
    [][/\ (phase = "trap" /\ cur.trap_kind # "Ecall") => (phase' = "aborted" /\ PS' = PS)
       /\ phase' \in {"priv", "user"} => cur'.trap_kind = "Ecall"
       /\ phase = "priv" => phase' = "user"
       /\ phase = "user" =>
             /\ phase' = "idle"
             /\ user_state' = DiffEffect(user_state, cur.user_diff[1])
             /\ priv_state' = priv_state
             /\ Len(undo') = Len(undo) + 2
             /\ undo'[Len(undo')].tag = "UserOnly"
             /\ undo'[Len(undo')].diff = cur.user_diff[1]
             /\ undo'[Len(undo') - 1].tag = "PrivOnly"]_vars

\* C32: PrivState::new sets brk = heap_start; applying BrkUpdate{old, new} sets brk to
\* new and returns Ok, reverting it sets brk to old; the revert gives back the brk from
\* before the apply exactly when old was the brk at apply time; neither changes
\* heap_start, the page table or the captured streams.
C32_BreakPointer ==
    /\ last.op = "none" =>
          (priv_s.brk = priv_s.heap_start /\ priv_s = PrivState_new(HeapStart, {}))
    /\ (last.op = "apply_priv" /\ last.entry[1].tag = "BrkUpdate") =>
          /\ priv_s = [last.before[1].priv_s EXCEPT !.brk = last.entry[1].new]
          /\ driver.status = "running"
    /\ (last.op = "revert_priv" /\ last.entry[1].tag = "BrkUpdate") =>
          /\ priv_s = [last.result[1] EXCEPT !.brk = last.entry[1].old]
          /\ driver.status = "running"
          /\ priv_s.brk = last.before[1].priv_s.brk
                <=> last.entry[1].old = last.before[1].priv_s.brk
          /\ priv_s.heap_start = last.before[1].priv_s.heap_start
          /\ priv_s.stdout = last.before[1].priv_s.stdout
          /\ priv_s.stderr = last.before[1].priv_s.stderr

\* The break pointer was raised by 4, then a BrkUpdate whose old field is still the
\* start of the heap was applied and reverted: brk is the start of the heap, not the
\* value it had before that apply.
C32_Witness ==
    /\ last.op = "revert_priv" /\ last.entry[1].tag = "BrkUpdate"
    /\ last.entry[1].old = HeapStart
    /\ last.before[1].priv_s.brk = HeapStart + 4
    /\ last.result[1].brk = HeapStart + 8
    /\ priv_s.brk = HeapStart

\* C33: PrivState::apply_diff returns Err(cause) exactly for a Terminate(cause) diff,
\* with that cause, and then leaves the whole PrivState as it was; FileWrite to fd 1 or
\* 2, PtUpdate and BrkUpdate return Ok; a FileWrite to any other fd aborts and appends
\* to neither stream.
C33_ApplyDiffResult ==
    last.op = "apply_priv" =>
        LET diff == last.entry[1]
            before == last.before[1].priv_s
        IN  /\ driver.status = "terminated" <=> diff.tag = "Terminate"
            /\ diff.tag = "Terminate" => (driver.cause = diff.cause /\ priv_s = before)
            /\ diff.tag # "Terminate" => driver.cause = NoCause
            /\ (diff.tag = "FileWrite" /\ diff.fd \in {1, 2}) => driver.status = "running"
            /\ diff.tag \in {"PtUpdate", "BrkUpdate"} => driver.status = "running"
            /\ (diff.tag = "FileWrite" /\ diff.fd \notin {1, 2}) =>
                  /\ driver.status = "aborted"
                  /\ priv_s.stdout = before.stdout
                  /\ priv_s.stderr = before.stderr

\* After a write to stdout a Terminate(SegFault) diff was applied: the loop holds
\* Err(SegFault) and the PrivState still has the written byte and nothing else.
C33_Witness ==
    /\ last.op = "apply_priv" /\ last.entry[1].tag = "Terminate"
    /\ last.entry[1].cause.tag = "SegFault"
    /\ driver.status = "terminated" /\ driver.cause.tag = "SegFault"
    /\ priv_s.stdout = VecOf(<<72>>) /\ priv_s = last.before[1].priv_s

\* C34: a memory fault is translated to a termination cause by its cause alone:
\* PageFault and SegFault give TermCause::SegFault, BusError gives TermCause::BusError,
\* so every memory fault ends in exit status 139 or 138.
C34_FaultToTermCause ==
    last.op \in {"from_fault", "fault_exit"} =>
        LET fault == last.entry[1]
        IN  /\ fault.cause \in {"PageFault", "SegFault"} => term_cause.tag = "SegFault"
            /\ fault.cause = "BusError" => term_cause.tag = "BusError"
            /\ last.op = "fault_exit" =>
                  /\ exit_status \in {138, 139}
                  /\ exit_status = 139 <=> fault.cause \in {"PageFault", "SegFault"}

\* A bus error at address 0 ended the program with status 138 and the bus-error message.
C34_Witness ==
    /\ last.op = "fault_exit"
    /\ last.entry[1] = [user_vaddr |-> 0, cause |-> "BusError"]
    /\ term_cause.tag = "BusError"
    /\ exit_status = 138
    /\ priv_state.stderr = Vec_extend(last.before[1].priv_state.stderr, VecOf(BusErrorMsg))

\* Two user states differ at most in the pc, the register named in the diff and the
\* memory word named in the diff.
SameOutside(ustate, ustate2, d) ==
    /\ \A r \in Regs : (d.reg = <<>> \/ d.reg[1].reg # r) => ustate2.regfile[r] = ustate.regfile[r]
    /\ DOMAIN ustate2.memory = DOMAIN ustate.memory
    /\ \A a \in DOMAIN ustate.memory :
          (d.mem = <<>> \/ d.mem[1].addr # a) => ustate2.memory[a] = ustate.memory[a]

\* C35: UserProgState::apply_diff and revert_diff change only the pc, the one register
\* and the one memory word named in the diff, and nothing of the privileged state;
\* applying a privileged diff changes no user state.
C35_DiffFrame ==
    [][/\ (phase = "idle" /\ phase' = "idle" /\ last'.op \in {"apply", "apply_diff"}) =>
             /\ SameOutside(user_state, user_state', last'.result[1].diff[1])
             /\ user_state'.pc = last'.result[1].diff[1].pc.new_pc
             /\ priv_state' = priv_state
       /\ phase = "user" =>
             /\ SameOutside(user_state, user_state', cur.user_diff[1])
             /\ user_state'.pc = cur.user_diff[1].pc.new_pc
             /\ priv_state' = priv_state
       /\ (phase = "idle" /\ phase' = "idle" /\ Len(undo') < Len(undo)
             /\ undo[Len(undo)].tag = "UserOnly") =>
             /\ SameOutside(user_state, user_state', undo[Len(undo)].diff)
             /\ user_state'.pc = undo[Len(undo)].diff.pc.old_pc
             /\ priv_state' = priv_state
       /\ phase = "priv" => user_state' = user_state]_vars

\* A store changed one memory word; then the privileged diff of a write syscall was
\* applied: two bytes are captured and the user state is the one the ecall started from.
C35_Witness ==
    /\ phase = "user"
    /\ cur.priv_diff[1].tag = "FileWrite"
    /\ BytesIn(priv_state.stdout) = usgn_to_usize(2)
    /\ user_state = cur.before[1].user_state
    /\ Len(undo) = 1 /\ undo[1].diff.mem # <<>>
    /\ user_state.memory # undo[1].before.user_state.memory

\* C36: the captured stdout is append-only and ordered: it starts empty, the step that
\* applies the privileged diff of a Write syscall to fd 1 extends it at the end by the
\* bytes of that syscall, and every other step, a write to another descriptor and the
\* reverts included, leaves it as it is; so it is always the concatenation, in execution
\* order, of the bytes of all Write syscalls to stdout applied so far.
C36_StdoutAppendOnly ==
    /\ priv_state.stdout = <<>>
    /\ [][IF /\ phase = "priv" /\ phase' = "user" /\ cur.priv_diff[1].tag = "FileWrite"
             /\ cur.before[1].user_state.regfile["a0"] = 1
          THEN LET b == cur.before[1].user_state
               IN  /\ number_to_syscall(b.regfile["a7"]) = "Write"
                   /\ Wrote(priv_state.stdout, priv_state'.stdout,
                            b, b.regfile["a1"], b.regfile["a2"])
          ELSE priv_state'.stdout = priv_state.stdout]_vars

\* C37: parse errors are isolated per line: every round of the loop takes the next line;
\* a line that fails adds exactly one error, for that line, and no instruction; a line
\* that parses adds its instructions at the end and no error; the instructions are in
\* source-line order; no line gives both an error and an instruction; at the return the
\* report is empty exactly when every line parsed.
C37_ErrorsPerLine ==
    /\ [](asm.op = "parse" =>
            /\ \A i \in 1 .. Len(asm.report) :
                  /\ asm.report[i].line \in 1 .. asm.next - 1
                  /\ i > 1 => asm.report[i - 1].line < asm.report[i].line
            /\ Len(asm.from) = Len(asm.parsed)
            /\ \A i \in 1 .. Len(asm.from) :
                  /\ asm.from[i] \in 1 .. asm.next - 1
                  /\ i > 1 => asm.from[i - 1] <= asm.from[i]
                  /\ \A j \in 1 .. Len(asm.report) : asm.report[j].line # asm.from[i]
            /\ asm.done => asm.next = Len(asm.lines) + 1)
    /\ [][(asm.op = "parse" /\ asm' # asm) =>
            IF asm.next <= Len(asm.lines)
            THEN LET r == LineParser_parse(LineParser_new(asm.lines[asm.next], asm.last_label))
                 IN  /\ asm'.next = asm.next + 1
                     /\ ~asm'.done
                     /\ r.result.err # "none" =>
                           /\ Len(asm'.report) = Len(asm.report) + 1
                           /\ SubSeq(asm'.report, 1, Len(asm.report)) = asm.report
                           /\ asm'.report[Len(asm'.report)].line = asm.next
                           /\ asm'.parsed = asm.parsed
                     /\ r.result.err = "none" =>
                           /\ asm'.report = asm.report
                           /\ Len(asm'.parsed) = Len(asm.parsed) + Len(r.result.val)
                           /\ SubSeq(asm'.parsed, 1, Len(asm.parsed)) = asm.parsed
            ELSE /\ asm'.done
                 /\ asm'.report = asm.report /\ asm'.parsed = asm.parsed]_vars

\* parse has returned for three lines of which the first and the third failed and the
\* second gave an instruction: two errors, for lines 1 and 3, and one instruction, from
\* line 2.
C37_Witness ==
    /\ asm.op = "parse" /\ asm.done
    /\ Len(asm.lines) = 3
    /\ Len(asm.report) = 2 /\ asm.report[1].line = 1 /\ asm.report[2].line = 3
    /\ asm.report[1].err # "none"
    /\ asm.from = <<2>> /\ Len(asm.parsed) = 1

\* A token that try_parse_reg takes.
IsReg(tok) == tok.type = "Name" /\ tok.name \in RegNames

\* C38: a branch with a numeric target is accepted only if the target fits in 13 bits
\* (non-negative below 2^13, or negative from -2^12) and is even; an odd immediate gives
\* an error and no instruction; a label target gives a partial instruction that records
\* the needed label; jal is accepted only with 1 or 2 arguments and jalr only with 1 or
\* 3, every other count is an error.
C38_BranchAndJumpArgs ==
    (asm.op = "line" /\ asm.result # <<>>) =>
        LET head == asm.line[1].name
            list == ArgsOf(ArgList(asm.line))
            n == Len(list)
            res == asm.result[1]
        IN  /\ (head \in {"beq", "bne"} /\ n = 3 /\ IsReg(list[1]) /\ IsReg(list[2])
                    /\ list[3].type = "Immediate") =>
                  LET v == list[3].num
                  IN  /\ res.err = "none" <=> (v >= -(2^12) /\ v < 2^13 /\ v % 2 = 0)
                      /\ v % 2 = 1 => (res.err # "none" /\ res.val = <<>>)
                      /\ res.err = "none" =>
                            /\ Len(res.val) = 1
                            /\ res.val[1].name = head
                            /\ res.val[1].needed_label = <<>>
                            /\ Len(res.val[1].args) = 3
                            /\ res.val[1].args[3] = v
            /\ (head \in {"beq", "bne"} /\ n = 3 /\ IsReg(list[1]) /\ IsReg(list[2])
                    /\ list[3].type = "Name") =>
                  /\ res.err = "none"
                  /\ Len(res.val) = 1
                  /\ res.val[1].name = head
                  /\ res.val[1].needed_label = <<list[3].name>>
                  /\ Len(res.val[1].args) = 2
                  /\ res.val[1].args[1] = REG_EXPANSION_TABLE(list[1].name)
                  /\ res.val[1].args[2] = REG_EXPANSION_TABLE(list[2].name)
            /\ head = "jal" =>
                  /\ res.err = "none" => n \in {1, 2}
                  /\ n \notin {1, 2} => (res.err # "none" /\ res.val = <<>>)
                  /\ (n = 1 /\ list[1].type = "Name") => res.err = "none"
                  /\ (n = 2 /\ IsReg(list[1]) /\ list[2].type = "Name") => res.err = "none"
            /\ head = "jalr" =>
                  /\ res.err = "none" => n \in {1, 3}
                  /\ n \notin {1, 3} => (res.err # "none" /\ res.val = <<>>)
                  /\ (n = 1 /\ IsReg(list[1])) => res.err = "none"
                  /\ (n = 3 /\ IsReg(list[1]) /\ IsReg(list[2]) /\ list[3].type = "Immediate"
                        /\ list[3].num \in -4 .. 4) => res.err = "none"

\* `beq x1 x1 3` has been parsed: an error and no instruction.
C38_Witness ==
    /\ asm.op = "line" /\ asm.result # <<>>
    /\ asm.line[1].name = "beq" /\ Len(asm.line) = 4
    /\ IsReg(asm.line[2]) /\ IsReg(asm.line[3])
    /\ asm.line[4].type = "Immediate" /\ asm.line[4].num = 3
    /\ asm.result[1].err = "generic" /\ asm.result[1].val = <<>>

====
